---- MODULE Spec2Model ----
(***************************************************************************)
(* Bounded media cache and delivery pipeline of rusik69/trtg.              *)
(*                                                                         *)
(*   pkg/cleanup/cleanup.go  Service: the byte+count eviction sweeper      *)
(*   pkg/web/cleanup.go      CleanupManager: the byte-only sweeper         *)
(*   pkg/web/server.go       handleAPIStream / transcodeAndServe           *)
(*                                                                         *)
(* File sizes are counted in MiB, so that the 2 GB ceiling of the sweeper  *)
(* (2 * 1024 MiB) stays inside TLC's integers.                             *)
(***************************************************************************)
EXTENDS Integers, Sequences, FiniteSets, TLC

(***************************************************************************)
(* Program constants of pkg/cleanup.                                       *)
(***************************************************************************)
MaxStorageGB == 2
MaxFiles == 5

(***************************************************************************)
(* Bounds of the model.                                                    *)
(***************************************************************************)
\* files of a tree whose files differ in size
MaxMixed == 3
\* files of a tree under the whole loop of Service.run
MaxRunFiles == 2
\* modification times are 1..MaxTime
MaxTime == 3
\* d.Info() and os.Remove failures the environment produces in one sweep
MaxIOErrors == 2
\* intervals of the sweeper's ticker that elapse
MaxTicks == 2
\* requests handleAPIStream is called with
MaxReq == 2

\* paths of the swept tree, in the lexical order of filepath.WalkDir: one
\* file more than the count ceiling allows
MaxPaths == MaxFiles + 1
\* sessions createSession issues
MaxSessions == 2
\* the clock runs over 0..MaxClock, in units of twelve hours
MaxClock == 3
\* the lifetime of a session, 24 hours (pkg/web/server.go:1240), in units of twelve hours
SessionTTL == 2

\* the session ids createSession returns, in the order it returns them
SessionIDs == 1..MaxSessions
\* getSessionID returns "" when the request has no session cookie
NoCookie == 0
\* a cookie value that generateSessionID never returns
Forged == MaxSessions + 1
\* s.sessions has no entry for the id
NoExpiry == -1
\* createSession has not returned the id
NotIssued == -1
Paths == 1..MaxPaths
ModTimes == 1..MaxTime
\* sizes in MiB: six files of 300 stay under the byte ceiling, two files of
\* 1100 exceed it, and one file of 2100 exceeds it alone
Sizes == {300, 1100, 2100}
CrowdSizes == {300}

NoFile == [modTime |-> 0, size |-> 0]

\* cleanup.Service (pkg/cleanup/cleanup.go)
VARIABLES
    storageExists,  \* os.Stat(s.storagePath) succeeds
    tree,           \* the regular files under s.storagePath: path -> (modTime, size)
    runPc,          \* position of the goroutine inside Service.run
    tickerOn,       \* run's ticker has been created
    tickBuf,        \* ticks waiting in ticker.C (a channel of capacity 1)
    elapsed,        \* intervals elapsed since the ticker was created
    received,       \* ticks the range loop has taken from ticker.C
    sweeps,         \* executions of Service.cleanup begun
    pc,             \* position of the goroutine inside Service.cleanup
    files,          \* cleanup's local slice `files`
    idx,            \* position of `for _, file := range files`
    totalSize,      \* cleanup's local totalSize
    deletedCount,   \* cleanup's local deletedCount
    deletedSize,    \* cleanup's local deletedSize
    statErrs,       \* the paths whose d.Info() returned an error in this sweep's scan
    removeErrs,     \* the paths whose os.Remove returned an error in this sweep
    outcome         \* which return of cleanup was taken

\* web.CleanupManager (pkg/web/cleanup.go)
VARIABLES
    cache,          \* the regular files under cm.baseDir: path -> (modTime, size)
    cmMaxSize,      \* cm.maxSize
    cmPc,           \* "new", or the position of the goroutine Start launched
    cmDone,         \* cm.done has been closed
    cmPanic,        \* close of a closed channel: the process has panicked
    cmTickerOn,     \* the ticker of Start exists and has not been stopped
    cmTickBuf,      \* ticks waiting in ticker.C (a channel of capacity 1)
    cmStopped,      \* Stop has returned on a manager that Start had started
    cmTickLate,     \* the waiting tick elapsed after that Stop returned
    cmElapsed,      \* intervals elapsed since the ticker was created
    cmSweeps,       \* executions of CleanupManager.cleanup begun
    cmLateSweeps,   \* those begun by a tick that elapsed after that Stop returned
    cmFiles,        \* cleanup's local slice `files`
    cmIdx,          \* position of `for _, file := range files`
    cmTotal,        \* cleanup's local totalSize
    cmDeleted,      \* cleanup's local deletedCount
    cmReclaimed,    \* cleanup's local reclaimedSize
    cmWalkErrs,     \* the paths the walk reported with an error in this sweep
    cmRemoveErrs    \* the paths whose os.Remove returned an error in this sweep

fsVars == <<storageExists, tree>>
runVars == <<runPc, tickerOn, tickBuf, elapsed, received>>
localVars == <<files, idx, totalSize, deletedCount, deletedSize, statErrs, removeErrs>>
serviceVars == <<fsVars, runVars, sweeps, pc, localVars, outcome>>

cmLoopVars == <<cmPc, cmDone, cmStopped, cmPanic, cmTickerOn, cmTickBuf, cmTickLate, cmElapsed,
                cmSweeps, cmLateSweeps>>
cmLocalVars == <<cmFiles, cmIdx, cmTotal, cmDeleted, cmReclaimed, cmWalkErrs, cmRemoveErrs>>
managerVars == <<cache, cmMaxSize, cmLoopVars, cmLocalVars>>

\* web.Server: handleAPIStream and transcodeAndServe (pkg/web/server.go)
VARIABLES
    hasToken,       \* s.token != ""
    hasDownloader,  \* s.downloader != nil
    videoCodec,     \* codec of the first video stream of the stored video
    audioCodec,     \* codec of the first audio stream of the stored video
    localExists,    \* the stored video's file exists under /var/lib/telegram-bot-api
    cached,         \* state of downloadDir/transcoded-<id>.mp4 of the stored video
    tmpFiles,       \* request -> state of its downloadDir/stream-<id>-*.mp4
    currentVideo,   \* s.currentVideo
    req             \* request -> position and locals of its handleAPIStream call

configVars == <<hasToken, hasDownloader, videoCodec, audioCodec>>
streamVars == <<configVars, localExists, cached, tmpFiles, currentVideo, req>>

\* parser.ParseVideoInfo (pkg/parser)
VARIABLES
    filePath,       \* the filePath argument of the call
    info,           \* the VideoInfo being returned (SeasonNumber, EpisodeNumber)
    parsePc         \* position of the call: absent, call, the pattern tried next, done

parserVars == <<filePath, info, parsePc>>

\* web.Server: sessions and requireAuth (pkg/web/server.go)
VARIABLES
    sessions,       \* s.sessions: session id -> expiry, NoExpiry where the map has no entry
    now,            \* time.Now(), in units of twelve hours
    issuedAt,       \* session id -> time createSession returned it, NotIssued before
    removed,        \* the session ids deleteSession was called with
    auth            \* the requireAuth call in progress: position, cookie, result of the check

authVars == <<sessions, now, issuedAt, removed, auth>>

vars == <<serviceVars, managerVars, streamVars, parserVars, authVars>>

\* a step of one component leaves the other components alone
OnlyService == UNCHANGED <<managerVars, streamVars, parserVars, authVars>>
OnlyManager == UNCHANGED <<serviceVars, streamVars, parserVars, authVars>>
OnlyStream == UNCHANGED <<serviceVars, managerVars, parserVars, authVars>>
OnlyParser == UNCHANGED <<serviceVars, managerVars, streamVars, authVars>>
OnlyAuth == UNCHANGED <<serviceVars, managerVars, streamVars, parserVars>>

(***************************************************************************)
(* Service fields set by NewService.                                       *)
(***************************************************************************)
maxBytes == MaxStorageGB * 1024
\* a Service that keeps one file less than MaxFiles
maxFilesOneLess == MaxFiles - 1
maxFiles == MaxFiles

(***************************************************************************)
(* Pure helpers.                                                           *)
(***************************************************************************)
RECURSIVE SumSizes(_)
SumSizes(s) == IF s = <<>> THEN 0 ELSE Head(s).size + SumSizes(Tail(s))

Present(t) == {p \in Paths : t[p] # NoFile}

\* scanFiles: the walk visits the files in lexical order and appends one
\* FileInfo per file whose d.Info() succeeds
RECURSIVE WalkFrom(_, _, _)
WalkFrom(t, p, errs) ==
    IF p > MaxPaths THEN <<>>
    ELSE IF t[p] # NoFile /\ p \notin errs
         THEN <<[path |-> p, modTime |-> t[p].modTime, size |-> t[p].size]>>
              \o WalkFrom(t, p + 1, errs)
         ELSE WalkFrom(t, p + 1, errs)

scanFiles(t, errs) == WalkFrom(t, 1, errs)

\* a sort that puts the newest file first
LessNewestFirst(a, b) == a.modTime > b.modTime

\* a comparison that also holds between files of equal modification time
LessOrSame(a, b) == a.modTime <= b.modTime

\* the comparison handed to sort.Slice
Less(a, b) == a.modTime < b.modTime

\* sort.Slice on the short slices of the model: an insertion sort, which
\* moves an element left only past elements it is Less than
RECURSIVE Insert(_, _)
Insert(s, f) ==
    IF s = <<>> THEN <<f>>
    ELSE IF Less(f, s[Len(s)]) THEN Insert(SubSeq(s, 1, Len(s) - 1), f) \o <<s[Len(s)]>>
         ELSE Append(s, f)

RECURSIVE SortSlice(_)
SortSlice(s) ==
    IF s = <<>> THEN <<>>
    ELSE Insert(SortSlice(SubSeq(s, 1, Len(s) - 1)), s[Len(s)])

\* a trigger that looks at the byte ceiling only
needsCleanupBytesOnly(total, n) == total > maxBytes

\* line 100
needsCleanup(total, n) == total > maxBytes \/ n > maxFiles

\* a loop that stops as soon as one of the two ceilings is met
underLimitsEither(total, n, deleted) == total <= maxBytes \/ n - deleted <= maxFiles

\* a loop that never deletes the last file that is left
underLimitsKeepOne(total, n, deleted) ==
    (total <= maxBytes /\ n - deleted <= maxFiles) \/ n - deleted <= 1

\* line 119
underLimits(total, n, deleted) == total <= maxBytes /\ n - deleted <= maxFiles

(***************************************************************************)
(* Service.Start and Service.run, lines 49-68.                             *)
(***************************************************************************)
\* a run that creates its ticker without sweeping first
StartTickerOnly ==
    /\ runPc = "new"
    /\ runPc' = "range"
    /\ tickerOn' = TRUE
    /\ UNCHANGED <<fsVars, tickBuf, elapsed, received, sweeps, pc, localVars, outcome>>
    /\ OnlyService

\* Start: go s.run(), whose first statement calls s.cleanup()
Start ==
    /\ runPc = "new"
    /\ runPc' = "first"
    /\ pc' = "call"
    /\ UNCHANGED <<fsVars, tickerOn, tickBuf, elapsed, received, sweeps,
                   localVars, outcome>>
    /\ OnlyService

\* line 62: the first cleanup has returned, the ticker is created
RunNewTicker ==
    /\ runPc = "first"
    /\ pc = "done"
    /\ runPc' = "range"
    /\ pc' = "idle"
    /\ tickerOn' = TRUE
    /\ UNCHANGED <<fsVars, tickBuf, elapsed, received, sweeps, localVars, outcome>>
    /\ OnlyService

\* an interval elapses: the ticker sends on ticker.C, and drops the tick if
\* the channel still holds the previous one
TickerFire ==
    /\ tickerOn
    /\ elapsed < MaxTicks
    /\ elapsed' = elapsed + 1
    /\ tickBuf' = 1
    /\ UNCHANGED <<fsVars, runPc, tickerOn, received, sweeps, pc, localVars, outcome>>
    /\ OnlyService

\* a loop that starts each cleanup in a goroutine of its own (go s.cleanup())
\* and takes the next tick while the previous cleanup is still running
RunReceiveWhileSweeping ==
    /\ runPc \in {"range", "tick"}
    /\ tickBuf = 1
    /\ tickBuf' = 0
    /\ received' = received + 1
    /\ runPc' = "tick"
    /\ pc' = "call"
    /\ UNCHANGED <<fsVars, tickerOn, elapsed, sweeps, localVars, outcome>>
    /\ OnlyService

\* lines 65-66: the range loop takes a tick and calls s.cleanup()
RunReceive ==
    /\ runPc = "range"
    /\ tickBuf = 1
    /\ tickBuf' = 0
    /\ received' = received + 1
    /\ runPc' = "tick"
    /\ pc' = "call"
    /\ UNCHANGED <<fsVars, tickerOn, elapsed, sweeps, localVars, outcome>>
    /\ OnlyService

\* line 65: the cleanup of a tick has returned, back to the range
RunLoop ==
    /\ runPc = "tick"
    /\ pc = "done"
    /\ runPc' = "range"
    /\ pc' = "idle"
    /\ UNCHANGED <<fsVars, tickerOn, tickBuf, elapsed, received, sweeps,
                   localVars, outcome>>
    /\ OnlyService

(***************************************************************************)
(* Service.cleanup, lines 71-111: stat, scan, totals, decision, sort.      *)
(***************************************************************************)
Enter ==
    /\ pc = "call"
    /\ sweeps' = sweeps + 1
    /\ idx' = 1
    /\ deletedCount' = 0
    /\ deletedSize' = 0
    /\ removeErrs' = {}
    /\ UNCHANGED <<fsVars, runVars>>
    /\ OnlyService

Return(o) ==
    /\ pc' = "done"
    /\ outcome' = o

\* lines 73-76
CleanupNoStorage ==
    /\ Enter
    /\ ~storageExists
    /\ Return("nostorage")
    /\ files' = <<>>
    /\ totalSize' = 0
    /\ statErrs' = {}

\* lines 79-83: the walk itself returned an error
CleanupScanError ==
    /\ Enter
    /\ storageExists
    /\ Return("scanerror")
    /\ files' = <<>>
    /\ totalSize' = 0
    /\ statErrs' = {}

\* a scan that returns an error when a d.Info() fails
CleanupScanStatErrorAborts ==
    /\ Enter
    /\ storageExists
    /\ \E errs \in SUBSET Present(tree) :
         /\ Cardinality(errs) <= MaxIOErrors
         /\ LET fs == scanFiles(tree, errs)
                total == SumSizes(fs)
            IN /\ statErrs' = errs
               /\ IF errs # {}
                  THEN /\ Return("scanerror")
                       /\ files' = <<>>
                       /\ totalSize' = 0
                  ELSE IF Len(fs) = 0
                  THEN /\ Return("empty")
                       /\ files' = fs
                       /\ totalSize' = 0
                  ELSE IF ~needsCleanup(total, Len(fs))
                  THEN /\ Return("within")
                       /\ files' = fs
                       /\ totalSize' = total
                  ELSE /\ pc' = "loop"
                       /\ outcome' = "none"
                       /\ files' = SortSlice(fs)
                       /\ totalSize' = total

\* lines 79-111
CleanupScan ==
    /\ Enter
    /\ storageExists
    /\ \E errs \in SUBSET Present(tree) :
         /\ Cardinality(errs) <= MaxIOErrors
         /\ LET fs == scanFiles(tree, errs)
                total == SumSizes(fs)
            IN /\ statErrs' = errs
               /\ IF Len(fs) = 0
                  THEN /\ Return("empty")
                       /\ files' = fs
                       /\ totalSize' = 0
                  ELSE IF ~needsCleanup(total, Len(fs))
                  THEN /\ Return("within")
                       /\ files' = fs
                       /\ totalSize' = total
                  ELSE /\ pc' = "loop"
                       /\ outcome' = "none"
                       /\ files' = SortSlice(fs)
                       /\ totalSize' = total

(***************************************************************************)
(* Service.cleanup, lines 117-137: one iteration of the delete loop.       *)
(***************************************************************************)
LoopRuns ==
    /\ pc = "loop"
    /\ idx <= Len(files)
    /\ ~underLimits(totalSize, Len(files), deletedCount)

\* a loop that counts a deleted file but keeps its bytes in totalSize
RemoveOkKeepsTotal ==
    /\ LoopRuns
    /\ tree[files[idx].path] # NoFile
    /\ tree' = [tree EXCEPT ![files[idx].path] = NoFile]
    /\ deletedCount' = deletedCount + 1
    /\ deletedSize' = deletedSize + files[idx].size
    /\ idx' = idx + 1
    /\ UNCHANGED <<storageExists, runVars, sweeps, pc, files, totalSize, statErrs,
                   removeErrs, outcome>>
    /\ OnlyService

\* os.Remove succeeds
RemoveOk ==
    /\ LoopRuns
    /\ tree[files[idx].path] # NoFile
    /\ tree' = [tree EXCEPT ![files[idx].path] = NoFile]
    /\ deletedCount' = deletedCount + 1
    /\ deletedSize' = deletedSize + files[idx].size
    /\ totalSize' = totalSize - files[idx].size
    /\ idx' = idx + 1
    /\ UNCHANGED <<storageExists, runVars, sweeps, pc, files, statErrs,
                   removeErrs, outcome>>
    /\ OnlyService

\* a loop that gives the sweep up at the first os.Remove that fails
RemoveErrorAborts ==
    /\ LoopRuns
    /\ Cardinality(statErrs) + Cardinality(removeErrs) < MaxIOErrors
    /\ removeErrs' = removeErrs \cup {files[idx].path}
    /\ Return("cleaned")
    /\ UNCHANGED <<fsVars, runVars, sweeps, files, idx, totalSize, deletedCount,
                   deletedSize, statErrs>>
    /\ OnlyService

\* os.Remove returns an error: logged, continue
RemoveError ==
    /\ LoopRuns
    /\ Cardinality(statErrs) + Cardinality(removeErrs) < MaxIOErrors
    /\ removeErrs' = removeErrs \cup {files[idx].path}
    /\ idx' = idx + 1
    /\ UNCHANGED <<fsVars, runVars, sweeps, pc, files, totalSize, deletedCount,
                   deletedSize, statErrs, outcome>>
    /\ OnlyService

(***************************************************************************)
(* Service.cleanup, lines 119-120 and 139-145: leave the loop, summary.    *)
(***************************************************************************)
CleanupSummary ==
    /\ pc = "loop"
    /\ \/ idx > Len(files)
       \/ underLimits(totalSize, Len(files), deletedCount)
    /\ Return("cleaned")
    /\ UNCHANGED <<fsVars, runVars, sweeps, localVars>>
    /\ OnlyService

Cleanup ==
    \/ CleanupNoStorage
    \/ CleanupScanError
    \/ CleanupScan
    \/ RemoveOk
    \/ RemoveError
    \/ CleanupSummary

(***************************************************************************)
(* The trees the sweeper is run on.                                        *)
(***************************************************************************)
TreeOf(n, f) == [p \in Paths |-> IF p <= n THEN f[p] ELSE NoFile]

\* the tree holds up to MaxMixed files of any size
MixedTree ==
    \E n \in 0..MaxMixed :
        \E f \in [1..n -> [modTime : ModTimes, size : Sizes]] : tree = TreeOf(n, f)

\* the tree holds up to MaxPaths small files: enough to exceed the count ceiling
CrowdTree ==
    \E n \in (MaxMixed + 1)..MaxPaths :
        \E f \in [1..n -> [modTime : ModTimes, size : CrowdSizes]] : tree = TreeOf(n, f)

\* the tree holds up to MaxRunFiles files of any size
RunTree ==
    \E n \in 0..MaxRunFiles :
        \E f \in [1..n -> [modTime : ModTimes, size : Sizes]] : tree = TreeOf(n, f)

EmptyTree == [p \in Paths |-> NoFile]

\* the storage path may not exist yet, and then holds no file
StorageChoice ==
    /\ storageExists \in BOOLEAN
    /\ (~storageExists => Present(tree) = {})

\* the fields of a Service whose goroutine has not been launched
ServiceIdle ==
    /\ tickerOn = FALSE
    /\ tickBuf = 0
    /\ elapsed = 0
    /\ received = 0
    /\ sweeps = 0
    /\ pc = "idle"
    /\ files = <<>>
    /\ idx = 1
    /\ totalSize = 0
    /\ deletedCount = 0
    /\ deletedSize = 0
    /\ statErrs = {}
    /\ removeErrs = {}
    /\ outcome = "none"

\* a Service that NewService has just returned
ServiceNew ==
    /\ runPc = "new"
    /\ ServiceIdle

\* no Service is constructed
ServiceAbsent ==
    /\ storageExists = FALSE
    /\ tree = EmptyTree
    /\ runPc = "absent"
    /\ ServiceIdle

(***************************************************************************)
(* web.CleanupManager: Start, Stop and the goroutine of Start,             *)
(* pkg/web/cleanup.go lines 29-49.                                         *)
(***************************************************************************)
\* Start: the ticker is created and the goroutine launched
CmStart ==
    /\ cmPc = "new"
    /\ ~cmPanic
    /\ cmPc' = "select"
    /\ cmTickerOn' = TRUE
    /\ UNCHANGED <<cache, cmMaxSize, cmDone, cmStopped, cmPanic, cmTickBuf, cmTickLate, cmElapsed,
                   cmSweeps, cmLateSweeps, cmLocalVars>>
    /\ OnlyManager

\* Stop: close(cm.done); closing a closed channel panics
CmStop ==
    /\ ~cmPanic
    /\ IF cmDone
       THEN cmPanic' = TRUE /\ UNCHANGED <<cmDone, cmStopped>>
       ELSE cmDone' = TRUE /\ cmStopped' = (cmPc # "new") /\ UNCHANGED cmPanic
    /\ UNCHANGED <<cache, cmMaxSize, cmPc, cmTickerOn, cmTickBuf, cmTickLate, cmElapsed,
                   cmSweeps, cmLateSweeps, cmLocalVars>>
    /\ OnlyManager

\* an interval elapses: the ticker sends on ticker.C, and drops the tick if
\* the channel still holds the previous one
CmTickerFire ==
    /\ cmTickerOn
    /\ ~cmPanic
    /\ cmElapsed < MaxTicks
    /\ cmElapsed' = cmElapsed + 1
    /\ cmTickBuf' = 1
    /\ cmTickLate' = IF cmTickBuf = 1 THEN cmTickLate ELSE cmStopped
    /\ UNCHANGED <<cache, cmMaxSize, cmPc, cmDone, cmStopped, cmPanic, cmTickerOn, cmSweeps,
                   cmLateSweeps, cmLocalVars>>
    /\ OnlyManager

\* lines 35-37: the select takes the ticker case and calls cm.cleanup(); a
\* select with several ready cases picks any one of them
CmSelectTick ==
    /\ cmPc = "select"
    /\ ~cmPanic
    /\ cmTickBuf = 1
    /\ cmTickBuf' = 0
    /\ cmTickLate' = FALSE
    /\ cmPc' = "walk"
    /\ cmSweeps' = cmSweeps + 1
    /\ cmLateSweeps' = cmLateSweeps + (IF cmTickLate THEN 1 ELSE 0)
    /\ UNCHANGED <<cache, cmMaxSize, cmDone, cmStopped, cmPanic, cmTickerOn, cmElapsed, cmLocalVars>>
    /\ OnlyManager

\* lines 38-40: the select takes the done case, stops the ticker and returns
CmSelectDone ==
    /\ cmPc = "select"
    /\ ~cmPanic
    /\ cmDone
    /\ cmPc' = "exited"
    /\ cmTickerOn' = FALSE
    /\ UNCHANGED <<cache, cmMaxSize, cmDone, cmStopped, cmPanic, cmTickBuf, cmTickLate, cmElapsed,
                   cmSweeps, cmLateSweeps, cmLocalVars>>
    /\ OnlyManager

(***************************************************************************)
(* CleanupManager.cleanup, pkg/web/cleanup.go lines 58-119.                *)
(***************************************************************************)
\* lines 65-80: the walk skips the paths it gets an error for
walkFiles(t, errs) == WalkFrom(t, 1, errs)

\* a cleanup that deletes in the order of the walk, without sorting
CmCleanupScanUnsorted ==
    /\ cmPc = "walk"
    /\ ~cmPanic
    /\ \E errs \in SUBSET Present(cache) :
         /\ Cardinality(errs) <= MaxIOErrors
         /\ LET fs == walkFiles(cache, errs)
                total == SumSizes(fs)
            IN /\ cmWalkErrs' = errs
               /\ cmTotal' = total
               /\ cmFiles' = fs
               /\ cmPc' = IF total <= cmMaxSize THEN "select" ELSE "loop"
    /\ cmIdx' = 1
    /\ cmDeleted' = 0
    /\ cmReclaimed' = 0
    /\ cmRemoveErrs' = {}
    /\ UNCHANGED <<cache, cmMaxSize, cmDone, cmStopped, cmPanic, cmTickerOn, cmTickBuf, cmTickLate,
                   cmElapsed, cmSweeps, cmLateSweeps>>
    /\ OnlyManager

\* lines 58-97: walk, total, decision, sort
CmCleanupScan ==
    /\ cmPc = "walk"
    /\ ~cmPanic
    /\ \E errs \in SUBSET Present(cache) :
         /\ Cardinality(errs) <= MaxIOErrors
         /\ LET fs == walkFiles(cache, errs)
                total == SumSizes(fs)
            IN /\ cmWalkErrs' = errs
               /\ cmTotal' = total
               /\ IF total <= cmMaxSize
                  THEN /\ cmPc' = "select"
                       /\ cmFiles' = fs
                  ELSE /\ cmPc' = "loop"
                       /\ cmFiles' = SortSlice(fs)
    /\ cmIdx' = 1
    /\ cmDeleted' = 0
    /\ cmReclaimed' = 0
    /\ cmRemoveErrs' = {}
    /\ UNCHANGED <<cache, cmMaxSize, cmDone, cmStopped, cmPanic, cmTickerOn, cmTickBuf, cmTickLate,
                   cmElapsed, cmSweeps, cmLateSweeps>>
    /\ OnlyManager

CmLoopRuns ==
    /\ cmPc = "loop"
    /\ ~cmPanic
    /\ cmIdx <= Len(cmFiles)
    /\ cmTotal > cmMaxSize

\* lines 107-114: os.Remove succeeds
CmRemoveOk ==
    /\ CmLoopRuns
    /\ cache' = [cache EXCEPT ![cmFiles[cmIdx].path] = NoFile]
    /\ cmDeleted' = cmDeleted + 1
    /\ cmReclaimed' = cmReclaimed + cmFiles[cmIdx].size
    /\ cmTotal' = cmTotal - cmFiles[cmIdx].size
    /\ cmIdx' = cmIdx + 1
    /\ UNCHANGED <<cmMaxSize, cmLoopVars, cmFiles, cmWalkErrs, cmRemoveErrs>>
    /\ OnlyManager

\* a loop that tries the same file again when its os.Remove fails
CmRemoveErrorRetries ==
    /\ CmLoopRuns
    /\ Cardinality(cmWalkErrs) + Cardinality(cmRemoveErrs) < MaxIOErrors
    /\ cmRemoveErrs' = cmRemoveErrs \cup {cmFiles[cmIdx].path}
    /\ UNCHANGED <<cache, cmMaxSize, cmLoopVars, cmFiles, cmIdx, cmTotal, cmDeleted, cmReclaimed,
                   cmWalkErrs>>
    /\ OnlyManager

\* lines 107-108: os.Remove returns an error: logged, next file
CmRemoveError ==
    /\ CmLoopRuns
    /\ Cardinality(cmWalkErrs) + Cardinality(cmRemoveErrs) < MaxIOErrors
    /\ cmRemoveErrs' = cmRemoveErrs \cup {cmFiles[cmIdx].path}
    /\ cmIdx' = cmIdx + 1
    /\ UNCHANGED <<cache, cmMaxSize, cmLoopVars, cmFiles, cmTotal, cmDeleted, cmReclaimed,
                   cmWalkErrs>>
    /\ OnlyManager

\* lines 103-104 and 117-118: leave the loop, log, back to the select
CmCleanupEnd ==
    /\ cmPc = "loop"
    /\ ~cmPanic
    /\ \/ cmIdx > Len(cmFiles)
       \/ cmTotal <= cmMaxSize
    /\ cmPc' = "select"
    /\ UNCHANGED <<cache, cmMaxSize, cmDone, cmStopped, cmPanic, cmTickerOn, cmTickBuf, cmTickLate,
                   cmElapsed, cmSweeps, cmLateSweeps, cmLocalVars>>
    /\ OnlyManager

\* the size ceilings NewCleanupManager is called with
CmMaxSizes == {1000, 2048}

\* the cache directory holds up to MaxRunFiles files of any size
CacheTree ==
    \E n \in 0..MaxRunFiles :
        \E f \in [1..n -> [modTime : ModTimes, size : Sizes]] : cache = TreeOf(n, f)

\* the fields of a CleanupManager on which nothing has been called
ManagerIdle ==
    /\ cmDone = FALSE
    /\ cmStopped = FALSE
    /\ cmPanic = FALSE
    /\ cmTickerOn = FALSE
    /\ cmTickBuf = 0
    /\ cmTickLate = FALSE
    /\ cmElapsed = 0
    /\ cmSweeps = 0
    /\ cmLateSweeps = 0
    /\ cmFiles = <<>>
    /\ cmIdx = 1
    /\ cmTotal = 0
    /\ cmDeleted = 0
    /\ cmReclaimed = 0
    /\ cmWalkErrs = {}
    /\ cmRemoveErrs = {}

\* a CleanupManager that NewCleanupManager has just returned
ManagerNew ==
    /\ cmPc = "new"
    /\ ManagerIdle

\* no CleanupManager is constructed
ManagerAbsent ==
    /\ cache = EmptyTree
    /\ cmMaxSize = 0
    /\ cmPc = "absent"
    /\ ManagerIdle

(***************************************************************************)
(* web.Server.handleAPIStream, pkg/web/server.go lines 900-1037, with      *)
(* needsTranscodingByCodec (1277-1336), transcodeAndServe (1339-1394) and  *)
(* Downloader.DownloadFileWithPath.  The database holds a full record for  *)
(* the video "stored", a record without a file id for "pending", and      *)
(* nothing for "unknown".                                                  *)
(***************************************************************************)
Reqs == 1..MaxReq
VideoIDs == {"stored", "pending", "unknown"}

\* lines 921-937: the record the loop over GetAllVideos finds
Record(v) ==
    CASE v = "stored" -> [found |-> TRUE, TelegramFileID |-> "file"]
      [] v = "pending" -> [found |-> TRUE, TelegramFileID |-> ""]
      [] OTHER -> [found |-> FALSE, TelegramFileID |-> ""]

\* the paths the handler works with
LocalPath(v) == <<"local", v>>
TmpPath(v, r) == <<"stream", v, r>>
CachedPath(v) == <<"transcoded", v>>
NoPath == <<"none">>

\* a handleAPIStream call that has not begun
NoRequest ==
    [pc |-> "idle",
     videoID |-> "",          \* the id parsed from the URL
     inputPath |-> NoPath,    \* the file that is probed, served or transcoded
     status |-> 0,            \* the HTTP status of the response
     body |-> NoPath,         \* the file (or upstream) the body was served from
     rendition |-> "none",    \* the state that file was in when it was served
     aborted |-> FALSE,       \* the client went away mid-stream
     probes |-> 0,            \* ffprobe invocations
     probeErr |-> FALSE,      \* err of the ffprobe whose result is being acted on
     ffmpeg |-> "none",       \* the ffmpeg invocation: none, started, writing, ok, failed
     fetch |-> "none",        \* DownloadFileWithPath: none, ok, failed
     fetchErr |-> "",         \* the error DownloadFileWithPath returned
     fetchTries |-> 0,        \* requests for the file made by calls of
                              \* DownloadFileWithPath that returned an error
     detail |-> <<>>,         \* the text of the error response
     raced |-> FALSE,         \* the local file was gone when opened after os.Stat saw it
     cachedAtCall |-> FALSE]  \* cachedPath existed when transcodeAndServe looked

\* the file at the request's input path exists
InputExists(r) ==
    IF req[r].inputPath[1] = "local" THEN localExists ELSE tmpFiles[r] # "none"

\* opening the input path after os.Stat had seen it fails with file-not-found
LostRace(r) == req[r].inputPath[1] = "local" /\ ~localExists

\* http.Error / WriteHeader and return
Respond(rec, st) == [rec EXCEPT !.pc = "done", !.status = st]

\* http.Error(w, text, st) and return
Error(rec, text, st) == [rec EXCEPT !.pc = "done", !.status = st, !.detail = text]

\* http.ServeFile of an existing file; the client may disconnect mid-stream,
\* which is recorded for a request that holds a transient file
Served(r, path, state, ab) ==
    [req[r] EXCEPT !.pc = "done", !.status = 200, !.body = path, !.rendition = state,
                   !.aborted = ab /\ tmpFiles[r] # "none"]

\* a handler whose transient file is named after the video alone
\* (stream-<id>.mp4): its deferred os.Remove takes the file of every call
\* for that video
RunDeferredSharedName(r) ==
    tmpFiles' = [q \in Reqs |-> IF req[q].videoID = req[r].videoID THEN "none"
                                ELSE tmpFiles[q]]

\* line 974: `defer os.Remove(tmpPath)` runs when the handler returns
RunDeferred(r) == tmpFiles' = [tmpFiles EXCEPT ![r] = "none"]

\* a handler that asks the proxy before it looks for a downloader
AfterLocalMissProxyFirst == "proxy"

\* lines 957-962 and 995: after a local miss, the origin if there is a
\* downloader, else the proxy
AfterLocalMiss == IF hasDownloader THEN "createTemp" ELSE "proxy"

\* a codec gate that rejects the audio codecs known to be unplayable instead
\* of accepting the ones known to be playable
needsTranscodeBlockList(vc, ac) ==
    LET videoCompatible == vc \in {"h264", "vp8", "vp9", "av1"}
        audioCompatible == ac \notin {"ac3", "eac3", "dts", "truehd", "dts-hd"}
    IN ~videoCompatible \/ ~audioCompatible

\* lines 1310-1335: the codec gate
needsTranscode(vc, ac) ==
    LET videoCompatible == vc \in {"h264", "vp8", "vp9", "av1"}
        audioCompatible == ac \in {"aac", "mp3", "opus", "vorbis"}
    IN ~videoCompatible \/ ~audioCompatible

\* a lookup that does not look at the record's TelegramFileID
LookupIgnoringFileID(v) ==
    IF ~Record(v).found THEN <<"Video not found">>
    ELSE <<>>

\* lines 921-937: the record of video v among the videos of the database and
\* its TelegramFileID; the text of the 404 response, <<>> if there is none
Lookup(v) ==
    IF ~Record(v).found THEN <<"Video not found">>
    ELSE IF Record(v).TelegramFileID = "" THEN <<"Video file ID not available">>
    ELSE <<>>

\* lines 901-937: the id from the URL ("" for none), the marker,
\* GetAllVideos, the record and its file id; requests are numbered in the
\* order they arrive
ReqStart(r) ==
    /\ req[r].pc = "idle"
    /\ \A q \in Reqs : q < r => req[q].pc # "idle"
    /\ \E v \in VideoIDs \cup {""}, dbErr \in BOOLEAN :
         IF v = ""
         THEN /\ ~dbErr
              /\ req' = [req EXCEPT ![r] = Error(@, <<"Video ID required">>, 400)]
              /\ UNCHANGED currentVideo
         ELSE /\ currentVideo' = v
              /\ req' = [req EXCEPT ![r] =
                    IF dbErr
                    THEN Error([@ EXCEPT !.videoID = v], <<"GetAllVideos failed">>, 500)
                    ELSE IF Lookup(v) # <<>>
                    THEN Error([@ EXCEPT !.videoID = v], Lookup(v), 404)
                    ELSE [@ EXCEPT !.videoID = v,
                                   !.pc = IF hasToken THEN "stat" ELSE AfterLocalMiss]]
    /\ UNCHANGED <<configVars, localExists, cached, tmpFiles>>
    /\ OnlyStream

\* a handler that serves only the video the marker names
StatLocalStaleMarkerFails(r) ==
    /\ req[r].pc = "stat"
    /\ req' = [req EXCEPT ![r] =
                  IF currentVideo # req[r].videoID
                  THEN Error(@, <<"another video is streaming">>, 500)
                  ELSE IF localExists
                  THEN [@ EXCEPT !.pc = "probeVideo",
                                 !.inputPath = LocalPath(req[r].videoID)]
                  ELSE [@ EXCEPT !.pc = AfterLocalMiss]]
    /\ UNCHANGED <<configVars, localExists, cached, tmpFiles, currentVideo>>
    /\ OnlyStream

\* lines 940-958: os.Stat(localPath)
StatLocal(r) ==
    /\ req[r].pc = "stat"
    /\ req' = [req EXCEPT ![r] =
                  IF localExists
                  THEN [@ EXCEPT !.pc = "probeVideo",
                                 !.inputPath = LocalPath(req[r].videoID)]
                  ELSE [@ EXCEPT !.pc = AfterLocalMiss]]
    /\ UNCHANGED <<configVars, localExists, cached, tmpFiles, currentVideo>>
    /\ OnlyStream

\* lines 1279-1291: ffprobe of the video stream; an error (the file is gone,
\* or ffprobe fails on it) means "needs transcoding"
ProbeVideo(r) ==
    /\ req[r].pc = "probeVideo"
    /\ \E ok \in BOOLEAN :
         /\ ok => InputExists(r)
         /\ req' = [req EXCEPT ![r] =
                       [@ EXCEPT !.probes = @ + 1,
                                 !.probeErr = ~ok,
                                 !.raced = @ \/ LostRace(r),
                                 !.pc = IF ok THEN "probeAudio" ELSE "transcode"]]
    /\ UNCHANGED <<configVars, localExists, cached, tmpFiles, currentVideo>>
    /\ OnlyStream

\* a needsTranscodingByCodec that takes a failed audio probe for "no audio
\* to worry about" and lets the video codec decide
ProbeAudioErrIgnored(r) ==
    /\ req[r].pc = "probeAudio"
    /\ \E ok \in BOOLEAN :
         /\ ok => InputExists(r)
         /\ req' = [req EXCEPT ![r] =
                       [@ EXCEPT !.probes = @ + 1,
                                 !.probeErr = ~ok,
                                 !.raced = @ \/ LostRace(r),
                                 !.pc = IF needsTranscode(videoCodec, IF ok THEN audioCodec
                                                                      ELSE "aac")
                                        THEN "transcode" ELSE "serve"]]
    /\ UNCHANGED <<configVars, localExists, cached, tmpFiles, currentVideo>>
    /\ OnlyStream

\* lines 1294-1335: ffprobe of the audio stream, then the codec gate
ProbeAudio(r) ==
    /\ req[r].pc = "probeAudio"
    /\ \E ok \in BOOLEAN :
         /\ ok => InputExists(r)
         /\ req' = [req EXCEPT ![r] =
                       [@ EXCEPT !.probes = @ + 1,
                                 !.probeErr = ~ok,
                                 !.raced = @ \/ LostRace(r),
                                 !.pc = IF ok /\ ~needsTranscode(videoCodec, audioCodec)
                                        THEN "serve" ELSE "transcode"]]
    /\ UNCHANGED <<configVars, localExists, cached, tmpFiles, currentVideo>>
    /\ OnlyStream

\* lines 954 and 991: http.ServeFile of the input path
ServeFile(r) ==
    /\ req[r].pc = "serve"
    /\ IF InputExists(r)
       THEN \E ab \in BOOLEAN :
              req' = [req EXCEPT ![r] = Served(r, req[r].inputPath, "complete", ab)]
       ELSE req' = [req EXCEPT ![r] = Error([@ EXCEPT !.raced = @ \/ LostRace(r)],
                                             <<"404 page not found">>, 404)]
    /\ RunDeferred(r)
    /\ UNCHANGED <<configVars, localExists, cached, currentVideo>>
    /\ OnlyStream

\* another request's ffmpeg has the cache file open for writing
OtherWriters(r) == \E q \in Reqs \ {r} : req[q].ffmpeg = "writing"

\* a transcodeAndServe that does not look for the cached rendition
TcStatNoCache(r) ==
    /\ req[r].pc = "transcode"
    /\ req' = [req EXCEPT ![r] =
                  [@ EXCEPT !.pc = "ffmpeg", !.ffmpeg = "started", !.probeErr = FALSE,
                            !.cachedAtCall = (cached # "none")]]
    /\ UNCHANGED <<configVars, localExists, cached, tmpFiles, currentVideo>>
    /\ OnlyStream

\* a transcodeAndServe that answers NotFound when the cached rendition is
\* missing
TcStatMissFails(r) ==
    /\ req[r].pc = "transcode"
    /\ req' = [req EXCEPT ![r] =
                  IF cached # "none"
                  THEN [@ EXCEPT !.pc = "serveCached", !.probeErr = FALSE,
                                 !.cachedAtCall = TRUE]
                  ELSE Error([@ EXCEPT !.probeErr = FALSE], <<"404 page not found">>, 404)]
    /\ RunDeferred(r)
    /\ UNCHANGED <<configVars, localExists, cached, currentVideo>>
    /\ OnlyStream

\* lines 1341-1347 and 1363-1377: os.Stat(cachedPath); on a hit go and serve
\* it, on a miss start ffmpeg; needsTranscodingByCodec's locals are gone
TcStat(r) ==
    /\ req[r].pc = "transcode"
    /\ req' = [req EXCEPT ![r] =
                  IF cached # "none"
                  THEN [@ EXCEPT !.pc = "serveCached", !.probeErr = FALSE,
                                 !.cachedAtCall = TRUE]
                  ELSE [@ EXCEPT !.pc = "ffmpeg", !.probeErr = FALSE,
                                 !.ffmpeg = "started"]]
    /\ UNCHANGED <<configVars, localExists, cached, tmpFiles, currentVideo>>
    /\ OnlyStream

\* lines 1345 and 1393: http.ServeFile(cachedPath)
ServeCached(r) ==
    /\ req[r].pc = "serveCached"
    /\ IF cached # "none"
       THEN \E ab \in BOOLEAN :
              req' = [req EXCEPT ![r] =
                         Served(r, CachedPath(req[r].videoID), cached, ab)]
       ELSE req' = [req EXCEPT ![r] = Error(@, <<"404 page not found">>, 404)]
    /\ RunDeferred(r)
    /\ UNCHANGED <<configVars, localExists, cached, currentVideo>>
    /\ OnlyStream

\* line 1384, inside cmd.Run: ffmpeg has opened its input and creates or
\* truncates (-y) the output at cachedPath
FfmpegWrite(r) ==
    /\ req[r].pc = "ffmpeg"
    /\ req[r].ffmpeg = "started"
    /\ InputExists(r)
    /\ req' = [req EXCEPT ![r] = [@ EXCEPT !.ffmpeg = "writing"]]
    /\ cached' = "writing"
    /\ UNCHANGED <<configVars, localExists, tmpFiles, currentVideo>>
    /\ OnlyStream

\* a handler that ends the process (log.Fatalf) when ffmpeg fails, and with it
\* the goroutine of Service.run
FfmpegFailFatal(r) ==
    /\ req[r].pc = "ffmpeg"
    /\ req' = [req EXCEPT ![r] = Error([@ EXCEPT !.ffmpeg = "failed"],
                                      <<"Failed to transcode video">>, 500)]
    /\ cached' = IF req[r].ffmpeg = "writing" /\ ~OtherWriters(r) THEN "failed" ELSE cached
    /\ RunDeferred(r)
    /\ runPc' = "exited"
    /\ UNCHANGED <<configVars, localExists, currentVideo>>
    /\ UNCHANGED <<fsVars, tickerOn, tickBuf, elapsed, received, sweeps, pc, localVars,
                   outcome, managerVars, parserVars, authVars>>

\* a handler that removes what ffmpeg wrote at cachedPath when ffmpeg fails
FfmpegFailRemovesOutput(r) ==
    /\ req[r].pc = "ffmpeg"
    /\ req' = [req EXCEPT ![r] = Error([@ EXCEPT !.ffmpeg = "failed"],
                                      <<"Failed to transcode video">>, 500)]
    /\ cached' = IF req[r].ffmpeg = "writing" /\ ~OtherWriters(r) THEN "none" ELSE cached
    /\ RunDeferred(r)
    /\ UNCHANGED <<configVars, localExists, currentVideo>>
    /\ OnlyStream

\* lines 1384-1388: cmd.Run returns an error: 500, and whatever ffmpeg wrote
\* stays at cachedPath
FfmpegFail(r) ==
    /\ req[r].pc = "ffmpeg"
    /\ req' = [req EXCEPT ![r] = Error([@ EXCEPT !.ffmpeg = "failed"],
                                      <<"Failed to transcode video">>, 500)]
    /\ cached' = IF req[r].ffmpeg = "writing" /\ ~OtherWriters(r) THEN "failed" ELSE cached
    /\ RunDeferred(r)
    /\ UNCHANGED <<configVars, localExists, currentVideo>>
    /\ OnlyStream

\* a transcodeAndServe that fills the cache and returns without serving it
FfmpegOkNoServe(r) ==
    /\ req[r].pc = "ffmpeg"
    /\ req[r].ffmpeg = "writing"
    /\ req' = [req EXCEPT ![r] = Respond([@ EXCEPT !.ffmpeg = "ok"], 200)]
    /\ cached' = IF OtherWriters(r) THEN "writing" ELSE "complete"
    /\ RunDeferred(r)
    /\ UNCHANGED <<configVars, localExists, currentVideo>>
    /\ OnlyStream

\* lines 1384 and 1390: cmd.Run returns nil
FfmpegOk(r) ==
    /\ req[r].pc = "ffmpeg"
    /\ req[r].ffmpeg = "writing"
    /\ req' = [req EXCEPT ![r] = [@ EXCEPT !.ffmpeg = "ok", !.pc = "serveCached"]]
    /\ cached' = IF OtherWriters(r) THEN "writing" ELSE "complete"
    /\ UNCHANGED <<configVars, localExists, tmpFiles, currentVideo>>
    /\ OnlyStream

\* lines 966-974: os.CreateTemp and the deferred os.Remove
CreateTemp(r) ==
    /\ req[r].pc = "createTemp"
    /\ \E ok \in BOOLEAN :
         IF ok
         THEN /\ tmpFiles' = [tmpFiles EXCEPT ![r] = "empty"]
              /\ req' = [req EXCEPT ![r] = [@ EXCEPT !.pc = "download"]]
         ELSE /\ req' = [req EXCEPT ![r] =
                            Error(@, <<"Failed to create temporary file">>, 500)]
              /\ UNCHANGED tmpFiles
    /\ UNCHANGED <<configVars, localExists, cached, currentVideo>>
    /\ OnlyStream

\* the errors DownloadFileWithPath returns: the file server cannot be
\* reached (line 124), getFile fails after the file server's 404 (line 146)
OriginErrors == {"failed to download file", "getFile API failed"}

\* DownloadFileWithPath lines 121-147: one http.Get of the file, and after a
\* 404 one getFile that makes the file server fetch it again
Tries(how) == IF how \in {"cloud", "getFile API failed"} THEN 2 ELSE 1

\* a handler that removes the transient file after the download's error
\* check instead of deferring the removal
DownloadRemoveLater(r) ==
    /\ req[r].pc = "download"
    /\ \E how \in {"direct", "cloud"} \cup OriginErrors :
         IF how \in OriginErrors
         THEN /\ req' = [req EXCEPT ![r] =
                            Error([@ EXCEPT !.fetch = "failed", !.fetchErr = how,
                                            !.fetchTries = Tries(how)],
                                  <<"Failed to download video from Telegram", how>>, 500)]
              /\ UNCHANGED <<tmpFiles, localExists>>
         ELSE /\ req' = [req EXCEPT ![r] =
                            [@ EXCEPT !.fetch = "ok", !.pc = "probeVideo",
                                      !.inputPath = TmpPath(req[r].videoID, r)]]
              /\ tmpFiles' = [tmpFiles EXCEPT ![r] = "data"]
              /\ localExists' = (localExists \/ how = "cloud")
    /\ UNCHANGED <<configVars, cached, currentVideo>>
    /\ OnlyStream

\* a handler that falls back to the proxy when the download fails
DownloadThenProxy(r) ==
    /\ req[r].pc = "download"
    /\ \E how \in {"direct", "cloud"} \cup OriginErrors :
         IF how \in OriginErrors
         THEN /\ req' = [req EXCEPT ![r] =
                            [@ EXCEPT !.fetch = "failed", !.fetchErr = how,
                                      !.fetchTries = Tries(how), !.pc = "proxy"]]
              /\ RunDeferred(r)
              /\ UNCHANGED localExists
         ELSE /\ req' = [req EXCEPT ![r] =
                            [@ EXCEPT !.fetch = "ok", !.pc = "probeVideo",
                                      !.inputPath = TmpPath(req[r].videoID, r)]]
              /\ tmpFiles' = [tmpFiles EXCEPT ![r] = "data"]
              /\ localExists' = (localExists \/ how = "cloud")
    /\ UNCHANGED <<configVars, cached, currentVideo>>
    /\ OnlyStream

\* a handler that calls DownloadFileWithPath again after an error, up to three
\* times
DownloadRetries(r) ==
    /\ req[r].pc = "download"
    /\ \E how \in {"direct", "cloud"} \cup OriginErrors :
         IF how \in OriginErrors
         THEN /\ req' = [req EXCEPT ![r] =
                            IF req[r].fetchTries + Tries(how) < 3
                            THEN [@ EXCEPT !.fetchTries = @ + Tries(how)]
                            ELSE Error([@ EXCEPT !.fetch = "failed", !.fetchErr = how,
                                                 !.fetchTries = @ + Tries(how)],
                                       <<"Failed to download video from Telegram", how>>, 500)]
              /\ IF req'[r].pc = "done" THEN RunDeferred(r) ELSE UNCHANGED tmpFiles
              /\ UNCHANGED localExists
         ELSE /\ req' = [req EXCEPT ![r] =
                            [@ EXCEPT !.fetch = "ok", !.pc = "probeVideo",
                                      !.inputPath = TmpPath(req[r].videoID, r)]]
              /\ tmpFiles' = [tmpFiles EXCEPT ![r] = "data"]
              /\ localExists' = (localExists \/ how = "cloud")
    /\ UNCHANGED <<configVars, cached, currentVideo>>
    /\ OnlyStream

\* lines 977-984 and DownloadFileWithPath: the file server has the file
\* ("direct"), or answers 404 and getFile fetches it from the cloud back to
\* disk ("cloud"), or the download fails
Download(r) ==
    /\ req[r].pc = "download"
    /\ \E how \in {"direct", "cloud"} \cup OriginErrors :
         IF how \in OriginErrors
         THEN /\ req' = [req EXCEPT ![r] =
                            Error([@ EXCEPT !.fetch = "failed", !.fetchErr = how,
                                            !.fetchTries = Tries(how)],
                                  <<"Failed to download video from Telegram", how>>, 500)]
              /\ RunDeferred(r)
              /\ UNCHANGED localExists
         ELSE /\ req' = [req EXCEPT ![r] =
                            [@ EXCEPT !.fetch = "ok", !.pc = "probeVideo",
                                      !.inputPath = TmpPath(req[r].videoID, r)]]
              /\ tmpFiles' = [tmpFiles EXCEPT ![r] = "data"]
              /\ localExists' = (localExists \/ how = "cloud")
    /\ UNCHANGED <<configVars, cached, currentVideo>>
    /\ OnlyStream

\* lines 995-1036: the trtg proxy; the request to the upstream fails (0),
\* or the upstream's status is passed on
Proxy(r) ==
    /\ req[r].pc = "proxy"
    /\ \E st \in {0, 200, 404} :
         req' = [req EXCEPT ![r] =
                    IF st = 0 THEN Error(@, <<"Failed to stream video">>, 500)
                    ELSE IF st = 200
                    THEN Served(r, <<"proxy", req[r].videoID>>, "complete", FALSE)
                    ELSE Respond(@, st)]
    /\ UNCHANGED <<configVars, localExists, cached, tmpFiles, currentVideo>>
    /\ OnlyStream

\* pkg/cleanup/cleanup.go line 124: a sweep of the Service removes the
\* stored video's local file
SweeperRemove ==
    /\ localExists
    /\ localExists' = FALSE
    /\ UNCHANGED <<configVars, cached, tmpFiles, currentVideo, req>>
    /\ OnlyStream

\* the codecs of the stored video under concurrent requests: playable, or
\* unplayable
CodecPairs == {<<"h264", "aac">>, <<"h264", "ac3">>}

\* the codecs of the stored video under a single request; "" is what ffprobe
\* prints for a file without such a stream
VideoCodecs == {"h264", "vp8", "vp9", "av1", "hevc", "mpeg4", ""}
AudioCodecs == {"aac", "mp3", "opus", "vorbis", "ac3", "dts", "flac", ""}

\* the deployments and videos the requests run against
ServerConfig ==
    /\ hasToken \in BOOLEAN
    /\ hasDownloader \in BOOLEAN
    /\ \E c \in CodecPairs : videoCodec = c[1] /\ audioCodec = c[2]
    /\ localExists \in BOOLEAN
    /\ cached = "none"

\* the deployments and videos a single request runs against
ServerConfigOne ==
    /\ hasToken \in BOOLEAN
    /\ hasDownloader \in BOOLEAN
    /\ videoCodec \in VideoCodecs
    /\ audioCodec \in AudioCodecs
    /\ localExists \in BOOLEAN
    /\ cached \in {"none", "complete"}

\* a Server no request has reached yet
ServerNew ==
    /\ tmpFiles = [r \in Reqs |-> "none"]
    /\ currentVideo = ""
    /\ req = [r \in Reqs |-> NoRequest]

\* ParseVideoInfo is not called
ParserAbsent ==
    /\ filePath = <<>>
    /\ info = [SeasonNumber |-> 0, EpisodeNumber |-> 0]
    /\ parsePc = "absent"

\* no session exists and no request passes through requireAuth
AuthAbsent ==
    /\ sessions = [id \in SessionIDs |-> NoExpiry]
    /\ now = 0
    /\ issuedAt = [id \in SessionIDs |-> NotIssued]
    /\ removed = {}
    /\ auth = [pc |-> "idle", sid |-> NoCookie]

\* no Server is constructed
ServerAbsent ==
    /\ hasToken = FALSE
    /\ hasDownloader = FALSE
    /\ videoCodec = "h264"
    /\ audioCodec = "aac"
    /\ localExists = FALSE
    /\ cached = "none"
    /\ ServerNew

(***************************************************************************)
(* SpecSweep: the first sweep of a started Service, over every tree.       *)
(***************************************************************************)
InitSweep ==
    /\ (MixedTree \/ CrowdTree) /\ StorageChoice /\ ServiceNew /\ ManagerAbsent /\ ServerAbsent
    /\ ParserAbsent /\ AuthAbsent

NextSweep ==
    \/ Start
    \/ CleanupNoStorage
    \/ CleanupScanError
    \/ CleanupScan
    \/ RemoveOk
    \/ RemoveError
    \/ CleanupSummary

SpecSweep == InitSweep /\ [][NextSweep]_vars

(***************************************************************************)
(* SpecRun: the whole loop of Service.run, over trees of a few files.      *)
(***************************************************************************)
InitRun ==
    RunTree /\ StorageChoice /\ ServiceNew /\ ManagerAbsent /\ ServerAbsent /\ ParserAbsent /\ AuthAbsent

NextRun ==
    \/ Start
    \/ RunNewTicker
    \/ TickerFire
    \/ RunReceive
    \/ RunLoop
    \/ CleanupNoStorage
    \/ CleanupScanError
    \/ CleanupScan
    \/ RemoveOk
    \/ RemoveError
    \/ CleanupSummary

SpecRun == InitRun /\ [][NextRun]_vars

(***************************************************************************)
(* SpecManager: a CleanupManager from NewCleanupManager on, with Start and *)
(* Stop called in any order.                                               *)
(***************************************************************************)
InitManager ==
    /\ CacheTree
    /\ cmMaxSize \in CmMaxSizes
    /\ ManagerNew
    /\ ServiceAbsent
    /\ ServerAbsent
    /\ ParserAbsent /\ AuthAbsent

NextManager ==
    \/ CmStart
    \/ CmStop
    \/ CmTickerFire
    \/ CmSelectTick
    \/ CmSelectDone
    \/ CmCleanupScan
    \/ CmRemoveOk
    \/ CmRemoveError
    \/ CmCleanupEnd

SpecManager == InitManager /\ [][NextManager]_vars

(***************************************************************************)
(* SpecSweepers: one sweep of a Service, or the sweeps of a CleanupManager *)
(* that is started and not stopped.                                        *)
(***************************************************************************)
InitSweepers ==
    \/ /\ (RunTree \/ CrowdTree) /\ StorageChoice /\ ServiceNew /\ ManagerAbsent
       /\ ServerAbsent /\ ParserAbsent /\ AuthAbsent
    \/ InitManager

NextSweepers ==
    \/ NextSweep
    \/ CmStart
    \/ CmTickerFire
    \/ CmSelectTick
    \/ CmCleanupScan
    \/ CmRemoveOk
    \/ CmRemoveError
    \/ CmCleanupEnd

SpecSweepers == InitSweepers /\ [][NextSweepers]_vars

(***************************************************************************)
(* SpecFair: one sweep of a Service, or the sweeps of a CleanupManager,    *)
(* under a scheduler that lets a goroutine that is inside cleanup take its *)
(* next step.  The ticker is under no such obligation.  The walk of the    *)
(* manager is one step of the model, so its fairness is asked of the       *)
(* delete loop.                                                            *)
(***************************************************************************)
\* the steps of CleanupManager.cleanup after its walk
CmLoopStep ==
    \/ CmRemoveOk
    \/ CmRemoveError
    \/ CmCleanupEnd

\* up to MaxRunFiles files of any size, the first in the walk being the
\* newest, or one file more than MaxFiles
StagedTree(t) ==
    \/ \E n \in 0..MaxRunFiles :
          \E sz \in [1..n -> Sizes] :
              t = TreeOf(n, [p \in 1..n |-> [modTime |-> MaxTime + 1 - p, size |-> sz[p]]])
    \/ t = TreeOf(MaxPaths, [p \in 1..MaxPaths |-> [modTime |-> 1, size |-> 300]])

InitFair ==
    \/ /\ StagedTree(tree) /\ StorageChoice /\ ServiceNew /\ ManagerAbsent
       /\ ServerAbsent /\ ParserAbsent /\ AuthAbsent
    \/ /\ StagedTree(cache) /\ cmMaxSize \in CmMaxSizes /\ ManagerNew
       /\ ServiceAbsent /\ ServerAbsent /\ ParserAbsent /\ AuthAbsent

SpecFair ==
    /\ InitFair
    /\ [][NextSweepers]_vars
    /\ WF_vars(Cleanup)
    /\ WF_vars(CmLoopStep)

(***************************************************************************)
(* SpecLoops: the loop of Service.run, or the loop of a CleanupManager     *)
(* that is started and not stopped, with the ticker firing at any moment.  *)
(* The manager's directory is empty or holds more than any size ceiling.   *)
(***************************************************************************)
\* the storage path holds more than the byte ceiling allows
OverfullTree ==
    tree = TreeOf(MaxRunFiles, [p \in 1..MaxRunFiles |-> [modTime |-> p, size |-> 1100]])

\* the manager's directory holds the same files
OverfullCache ==
    cache = TreeOf(MaxRunFiles, [p \in 1..MaxRunFiles |-> [modTime |-> p, size |-> 1100]])

InitLoops ==
    \/ InitRun
    \/ /\ (cache = EmptyTree \/ OverfullCache) /\ cmMaxSize \in CmMaxSizes /\ ManagerNew
       /\ ServiceAbsent /\ ServerAbsent /\ ParserAbsent /\ AuthAbsent

NextLoops ==
    \/ NextRun
    \/ CmStart
    \/ CmTickerFire
    \/ CmSelectTick
    \/ CmCleanupScan
    \/ CmRemoveOk
    \/ CmRemoveError
    \/ CmCleanupEnd

SpecLoops == InitLoops /\ [][NextLoops]_vars

(***************************************************************************)
(* SpecAgree: a Service and a CleanupManager with the Service's byte       *)
(* ceiling, each over its own copy of the same files, no more of them than *)
(* MaxFiles, with no error from the walk, d.Info() or os.Remove.  The two  *)
(* share no state, so the manager is started when the Service's sweep has  *)
(* returned.                                                               *)
(***************************************************************************)
InitAgree ==
    /\ MixedTree
    /\ StorageChoice
    /\ ServiceNew
    /\ cache = tree
    /\ cmMaxSize = maxBytes
    /\ ManagerNew
    /\ ServerAbsent
    /\ ParserAbsent /\ AuthAbsent

NextAgree ==
    \/ Start
    \/ CleanupNoStorage
    \/ (CleanupScan /\ statErrs' = {})
    \/ RemoveOk
    \/ CleanupSummary
    \/ (pc = "done" /\ CmStart)
    \/ CmTickerFire
    \/ CmSelectTick
    \/ (CmCleanupScan /\ cmWalkErrs' = {})
    \/ CmRemoveOk
    \/ CmCleanupEnd

SpecAgree == InitAgree /\ [][NextAgree]_vars

(***************************************************************************)
(* SpecStream: MaxReq concurrent calls of handleAPIStream against one      *)
(* Server, while the sweeper may remove the local file at any moment.      *)
(***************************************************************************)
InitStream == ServerConfig /\ ServerNew /\ ServiceAbsent /\ ManagerAbsent /\ ParserAbsent /\ AuthAbsent

NextStream ==
    \/ \E r \in Reqs : ReqStart(r)
    \/ \E r \in Reqs : StatLocal(r)
    \/ \E r \in Reqs : ProbeVideo(r)
    \/ \E r \in Reqs : ProbeAudio(r)
    \/ \E r \in Reqs : ServeFile(r)
    \/ \E r \in Reqs : TcStat(r)
    \/ \E r \in Reqs : ServeCached(r)
    \/ \E r \in Reqs : FfmpegWrite(r)
    \/ \E r \in Reqs : FfmpegFail(r)
    \/ \E r \in Reqs : FfmpegOk(r)
    \/ \E r \in Reqs : CreateTemp(r)
    \/ \E r \in Reqs : Download(r)
    \/ \E r \in Reqs : Proxy(r)
    \/ SweeperRemove

SpecStream == InitStream /\ [][NextStream]_vars

(***************************************************************************)
(* SpecOne: a single call of handleAPIStream, for a video of any codecs,   *)
(* with or without a cached rendition, while the sweeper may remove the    *)
(* local file at any moment.                                               *)
(***************************************************************************)
InitOne ==
    ServerConfigOne /\ ServerNew /\ ServiceAbsent /\ ManagerAbsent /\ ParserAbsent /\ AuthAbsent

NextOne ==
    \/ ReqStart(1)
    \/ StatLocal(1)
    \/ ProbeVideo(1)
    \/ ProbeAudio(1)
    \/ ServeFile(1)
    \/ TcStat(1)
    \/ ServeCached(1)
    \/ FfmpegWrite(1)
    \/ FfmpegFail(1)
    \/ FfmpegOk(1)
    \/ CreateTemp(1)
    \/ Download(1)
    \/ Proxy(1)
    \/ SweeperRemove

SpecOne == InitOne /\ [][NextOne]_vars

(***************************************************************************)
(* SpecMarker: a single call of handleAPIStream while other calls, of      *)
(* which only their write of the marker is looked at, overwrite            *)
(* currentVideo at any moment with the id of the same or of another video. *)
(***************************************************************************)
\* lines 910-912 in another call of the handler
MarkerOverwritten ==
    /\ \E v \in VideoIDs : v # currentVideo /\ currentVideo' = v
    /\ UNCHANGED <<configVars, localExists, cached, tmpFiles, req>>
    /\ OnlyStream

\* the steps of request r
RequestStep(r) ==
    \/ ReqStart(r)
    \/ StatLocal(r)
    \/ ProbeVideo(r)
    \/ ProbeAudio(r)
    \/ ServeFile(r)
    \/ TcStat(r)
    \/ ServeCached(r)
    \/ FfmpegWrite(r)
    \/ FfmpegFail(r)
    \/ FfmpegOk(r)
    \/ CreateTemp(r)
    \/ Download(r)
    \/ Proxy(r)

InitMarker == InitOne /\ <<videoCodec, audioCodec>> \in CodecPairs

NextMarker ==
    \/ NextOne
    \/ MarkerOverwritten

SpecMarker == InitMarker /\ [][NextMarker]_vars

(***************************************************************************)
(* SpecBoth: the goroutine of Service.run and a call of handleAPIStream in *)
(* one process.  The tree is empty or holds more than the byte ceiling     *)
(* allows, so that a sweep has files to delete; the video's local file     *)
(* exists until a sweep removes it.                                        *)
(***************************************************************************)
InitBoth ==
    /\ (tree = EmptyTree \/ OverfullTree)
    /\ StorageChoice
    /\ ServiceNew
    /\ ManagerAbsent
    /\ ServerConfig
    /\ hasToken
    /\ localExists
    /\ ServerNew
    /\ ParserAbsent /\ AuthAbsent

NextBoth ==
    \/ NextRun
    \/ NextOne

SpecBoth == InitBoth /\ [][NextBoth]_vars

(***************************************************************************)
(* What one sweep did, read off the scanned list and the tree.             *)
(***************************************************************************)
FileSet == {files[i] : i \in 1..Len(files)}
\* the scanned files still in the tree, and those no longer there
Left == {f \in FileSet : tree[f.path] # NoFile}
Gone == FileSet \ Left

RECURSIVE SizeOf(_)
SizeOf(S) ==
    IF S = {} THEN 0
    ELSE LET f == CHOOSE g \in S : TRUE IN f.size + SizeOf(S \ {f})

WithinBudget(S) == SizeOf(S) <= maxBytes /\ Cardinality(S) <= maxFiles

\* cleanup returned after its scan succeeded
SweepCompleted == pc = "done" /\ outcome \in {"empty", "within", "cleaned"}

DistinctTimes == \A f, g \in FileSet : f # g => f.modTime # g.modTime

\* the k oldest scanned files (of files with distinct modification times)
OldestK(k) == {f \in FileSet : Cardinality({g \in FileSet : g.modTime < f.modTime}) < k}

\* the number of oldest files that must go before both ceilings are met
RequiredK ==
    CHOOSE k \in 0..Cardinality(FileSet) :
        /\ WithinBudget(FileSet \ OldestK(k))
        /\ \A j \in 0..(k - 1) : ~WithinBudget(FileSet \ OldestK(j))

Suffix(j) == {files[i] : i \in (j + 1)..Len(files)}

ShortestPrefixDeleted ==
    /\ (outcome \in {"empty", "within"}) = WithinBudget(FileSet)
    /\ outcome = "cleaned" =>
          /\ \A i, j \in 1..Len(files) : i < j => files[i].modTime <= files[j].modTime
          /\ Gone = {files[i] : i \in 1..Cardinality(Gone)}
          /\ Gone # {}
          /\ WithinBudget(Left)
          /\ \A j \in 0..(Cardinality(Gone) - 1) : ~WithinBudget(Suffix(j))
    /\ outcome # "cleaned" => Gone = {}

C8_ImmediateThenPerTick ==
    /\ runPc = "new" => sweeps = 0
    /\ runPc # "new" => sweeps + (IF pc = "call" THEN 1 ELSE 0) = 1 + received
    /\ elapsed >= 1 => (sweeps >= 1 /\ runPc \notin {"new", "first"})
    /\ received <= elapsed

C8_Witness ==
    /\ received = 2
    /\ sweeps = 3
    /\ pc = "done"

(***************************************************************************)
(* C7. web.CleanupManager after Stop().                                    *)
(***************************************************************************)
\* C7: once Stop() has returned on a started CleanupManager, no sweep is
\* started by a tick that elapses afterwards
C7_NoSweepAfterStop == cmStopped => cmLateSweeps = 0

\* a sweep is running that a tick elapsed after Stop() has started
C7_SweepAfterStop ==
    /\ cmStopped
    /\ ~cmPanic
    /\ cmPc = "walk"
    /\ cmLateSweeps = 1

(***************************************************************************)
(* C4, C5, C6, C9, C10. Requests of handleAPIStream.                       *)
(***************************************************************************)
Done(r) == req[r].pc = "done"

\* the request was answered 200 from its transient file or from the cache path
ServedFromOrigin(r) ==
    /\ req[r].status = 200
    /\ req[r].body \in {TmpPath(req[r].videoID, r), CachedPath(req[r].videoID)}

\* C4: a request whose local file was there at os.Stat and gone when it was
\* opened for probing or streaming goes through the origin re-fetch exactly
\* once and succeeds
C4_RefetchAfterLostRace ==
    \A r \in Reqs : (Done(r) /\ req[r].raced) => (req[r].fetch = "ok" /\ req[r].status = 200)

\* a request that lost the race has ended with an error and without a re-fetch
C4_LostRaceIsAnError ==
    \E r \in Reqs :
        /\ Done(r)
        /\ req[r].raced
        /\ req[r].fetch = "none"
        /\ req[r].status \in {404, 500}

\* C5 as stated: after a local miss and a successful origin re-fetch the
\* request is served
C5_RefetchedIsServed ==
    \A r \in Reqs : (Done(r) /\ req[r].fetch = "ok") => ServedFromOrigin(r)

\* C5: after a local miss and a successful origin re-fetch the request is
\* served from its transient file or from the cache path, unless the ffmpeg
\* run of this request failed
C5_RefetchedIsServedUnlessTranscodeFails ==
    \A r \in Reqs :
        (Done(r) /\ req[r].fetch = "ok" /\ req[r].ffmpeg # "failed") => ServedFromOrigin(r)

\* re-fetched requests have been served directly and through a fresh rendition
C5_Witness ==
    \E r, q \in Reqs :
        /\ Done(r) /\ req[r].fetch = "ok" /\ req[r].body = TmpPath(req[r].videoID, r)
        /\ Done(q) /\ req[q].fetch = "ok" /\ req[q].ffmpeg = "ok"
        /\ req[q].body = CachedPath(req[q].videoID)

\* C6: a request that is not running has no transient file: the file a
\* request creates is gone when its handler has returned
C6_TransientFileRemoved ==
    \A r \in Reqs : req[r].pc \in {"idle", "done"} => tmpFiles[r] = "none"

\* one request has returned after a failed download, another after its
\* client went away mid-stream
C6_Witness ==
    \E r, q \in Reqs :
        /\ Done(r) /\ req[r].fetch = "failed" /\ req[r].status = 500
        /\ Done(q) /\ req[q].fetch = "ok" /\ req[q].aborted
        /\ tmpFiles[r] = "none" /\ tmpFiles[q] = "none"

\* C9: a transcodeAndServe that finds the cached rendition runs no
\* subprocess and serves the cache path of the video id, the path the ffmpeg
\* run that made the rendition wrote to
C9_CacheHitRunsNothing ==
    \A r \in Reqs :
        req[r].cachedAtCall =>
            /\ req[r].ffmpeg = "none"
            /\ Done(r) =>
                 /\ req[r].status = 200
                 /\ req[r].body = CachedPath(req[r].videoID)

\* a request has been served the rendition an earlier request made
C9_Witness ==
    \E r, q \in Reqs :
        /\ req[q].ffmpeg = "ok"
        /\ Done(r) /\ req[r].cachedAtCall /\ req[r].ffmpeg = "none"
        /\ req[r].body = CachedPath(req[q].videoID)

\* C10: a failed ffmpeg run ends in a 500 and leaves nothing at the cache
\* path, so no request is served the output of a failed run
C10_FailedTranscodeLeavesNothing ==
    /\ cached # "failed"
    /\ \A r \in Reqs :
         /\ req[r].ffmpeg = "failed" => req[r].status = 500
         /\ req[r].rendition # "failed"

\* a request got a cache hit on the output of a failed ffmpeg run
C10_FailedOutputServed ==
    \E r \in Reqs :
        /\ Done(r)
        /\ req[r].cachedAtCall
        /\ req[r].status = 200
        /\ req[r].rendition = "failed"

(***************************************************************************)
(* C11. Concurrent requests transcoding into the same cache path.          *)
(***************************************************************************)
ServedFromCache(r) == req[r].status = 200 /\ req[r].body = CachedPath(req[r].videoID)

\* C11: no request is served transcoded-<id>.mp4 while an ffmpeg run is
\* still writing it: every body served from the cache path is a rendition no
\* ffmpeg has open
C11_NoServeWhileWriting ==
    \A r \in Reqs : ServedFromCache(r) => req[r].rendition # "writing"

\* a request got a cache hit on the file another request's ffmpeg was writing
C11_HitWhileWriting ==
    \E r, q \in Reqs :
        /\ r # q
        /\ req[q].ffmpeg = "writing"
        /\ ServedFromCache(r)
        /\ req[r].cachedAtCall
        /\ req[r].rendition = "writing"

(***************************************************************************)
(* C12, C13, C14. The codec gate.                                          *)
(***************************************************************************)
\* needsTranscodingByCodec has returned for the request and the handler has
\* not acted on the result yet
GateDecided(r) == req[r].pc \in {"serve", "transcode"}

\* C12: a request whose video or audio probe failed is routed to
\* transcodeAndServe (the file counts as incompatible), never to the direct
\* serve
C12_ProbeErrorMeansTranscode ==
    \A r \in Reqs : req[r].probeErr => req[r].pc = "transcode"

\* requests stand at transcodeAndServe after a failed video probe and after
\* a failed audio probe of a file that exists and has playable codecs
C12_Witness ==
    /\ ~needsTranscode(videoCodec, audioCodec)
    /\ \E r, q \in Reqs :
         /\ req[r].probeErr /\ req[r].probes = 1 /\ req[r].pc = "transcode"
         /\ req[q].probeErr /\ req[q].probes = 2 /\ req[q].pc = "transcode"
         /\ InputExists(r) /\ InputExists(q)

\* the allow-lists of the codec gate
Playable ==
    /\ videoCodec \in {"h264", "vp8", "vp9", "av1"}
    /\ audioCodec \in {"aac", "mp3", "opus", "vorbis"}

\* the raw file, local or transient, was served
ServedRaw(r) ==
    /\ req[r].status = 200
    /\ req[r].body \in {LocalPath(req[r].videoID), TmpPath(req[r].videoID, r)}

\* C13: with both probes answered, the gate sends a file, local or
\* re-fetched, to the direct serve if and only if its video codec and its
\* audio codec are on the allow-lists, and to transcodeAndServe otherwise;
\* only a playable file is ever served raw
C13_GateFollowsAllowLists ==
    \A r \in Reqs :
        /\ (GateDecided(r) /\ ~req[r].probeErr) => (req[r].pc = "serve" <=> Playable)
        /\ req[r].pc = "serve" => (req[r].probes = 2 /\ req[r].inputPath # NoPath)
        /\ ServedRaw(r) => Playable

\* a re-fetched file with playable codecs other than (h264, aac) was served
\* raw
C13_Witness ==
    \E r \in Reqs :
        /\ Playable
        /\ videoCodec # "h264" /\ audioCodec # "aac"
        /\ Done(r) /\ req[r].status = 200 /\ req[r].body = TmpPath(req[r].videoID, r)

(***************************************************************************)
(* C14: a request for a video whose codecs are (h264, aac) is served its   *)
(* file directly and no subprocess (ffprobe, ffmpeg) ran during the        *)
(* request.                                                                *)
(***************************************************************************)
H264Aac == videoCodec = "h264" /\ audioCodec = "aac"

\* the subprocesses request r has started: its ffprobe runs and its ffmpeg
Subprocesses(r) == req[r].probes + (IF req[r].ffmpeg = "none" THEN 0 ELSE 1)

C14_ServedWithoutSubprocess ==
    \A r \in Reqs : (H264Aac /\ ServedRaw(r)) => Subprocesses(r) = 0

\* an (h264, aac) file was served directly after two ffprobe runs
C14_ProbedBeforeServing ==
    \E r \in Reqs :
        /\ H264Aac
        /\ ServedRaw(r)
        /\ req[r].probes = 2
        /\ req[r].ffmpeg = "none"

(***************************************************************************)
(* C15: a request for a video id that has no record, or whose record has   *)
(* an empty TelegramFileID, is answered 404 and nothing else happens       *)
(* during it: no os.Stat of the local file, no download, no ffprobe, no    *)
(* ffmpeg.  Every such operation is a step of its own, so the request must *)
(* go from idle to done in one step.                                       *)
(***************************************************************************)
Unservable(r) ==
    /\ req[r].pc # "idle"
    /\ req[r].videoID \in VideoIDs
    /\ (~Record(req[r].videoID).found \/ Record(req[r].videoID).TelegramFileID = "")

Untouched(r) ==
    /\ req[r].pc = "done"
    /\ req[r].inputPath = NoPath
    /\ req[r].body = NoPath
    /\ req[r].probes = 0
    /\ req[r].ffmpeg = "none"
    /\ req[r].fetch = "none"
    /\ tmpFiles[r] = "none"

\* as stated
C15_NotFoundWithoutRecord ==
    \A r \in Reqs : Unservable(r) => (Untouched(r) /\ req[r].status = 404)

\* as the code has it: GetAllVideos is called first, and its error is
\* answered 500 before any record is looked for
C15_NotFoundUnlessStoreFails ==
    \A r \in Reqs :
        Unservable(r) =>
            /\ Untouched(r)
            /\ req[r].status = IF req[r].detail = <<"GetAllVideos failed">> THEN 500 ELSE 404
            /\ req[r].status = 404 =>
                  req[r].detail = IF Record(req[r].videoID).found
                                  THEN <<"Video file ID not available">>
                                  ELSE <<"Video not found">>

\* one request for an id without a record and one for a record without a
\* file id were answered 404 while the local file and a downloader exist
C15_Witness ==
    /\ hasToken /\ hasDownloader /\ localExists
    /\ \E r, q \in Reqs :
          /\ Done(r) /\ req[r].videoID = "unknown" /\ req[r].status = 404
          /\ Done(q) /\ req[q].videoID = "pending" /\ req[q].status = 404

(***************************************************************************)
(* C16: when DownloadFileWithPath returns an error the request is over:    *)
(* it is answered 500 with a text that contains the downloader's error,    *)
(* and the proxy is not asked, nothing is probed, transcoded or served.    *)
(***************************************************************************)
C16_FetchFailureIsTerminal ==
    \A r \in Reqs :
        req[r].fetch = "failed" =>
            /\ req[r].pc = "done"
            /\ req[r].status = 500
            /\ req[r].fetchErr \in OriginErrors
            /\ req[r].detail = <<"Failed to download video from Telegram", req[r].fetchErr>>
            /\ req[r].inputPath = NoPath
            /\ req[r].body = NoPath
            /\ req[r].probes = 0
            /\ req[r].ffmpeg = "none"

\* two re-fetches failed, each with another error of the origin
C16_Witness ==
    \E r, q \in Reqs :
        /\ req[r].fetch = "failed" /\ req[q].fetch = "failed"
        /\ req[r].fetchErr # req[q].fetchErr
        /\ Done(r) /\ Done(q)

(***************************************************************************)
(* C17: the proxy is asked only by a request of a Server without a         *)
(* downloader for which the local check has not found a file; a Server     *)
(* with a downloader never asks the proxy.                                 *)
(***************************************************************************)
\* request r is about to ask the proxy, or was answered by it
AtProxy(r) == req[r].pc = "proxy"
FromProxy(r) == req[r].body[1] = "proxy" \/ req[r].detail = <<"Failed to stream video">>

C17_ProxyOnlyWithoutDownloader ==
    \A r \in Reqs :
        /\ (AtProxy(r) \/ FromProxy(r)) =>
              /\ ~hasDownloader
              /\ req[r].inputPath = NoPath
              /\ req[r].probes = 0
              /\ req[r].fetch = "none"
              /\ req[r].ffmpeg = "none"
        /\ AtProxy(r) => req[r].status = 0

\* with a token and no downloader, the local file was missing and the
\* request was answered by the proxy
C17_Witness ==
    \E r \in Reqs :
        /\ hasToken /\ ~hasDownloader
        /\ Done(r) /\ req[r].status = 200
        /\ req[r].body = <<"proxy", req[r].videoID>>

(***************************************************************************)
(* C18: the marker currentVideo has no influence on a request.  Whatever   *)
(* value other requests write into it, a request that has begun can take   *)
(* its next step, and the places it can go to, the statuses it can answer  *)
(* and the bodies it can serve are the same before and after the marker    *)
(* is overwritten.  As the marker is the only thing such a step changes,   *)
(* the results a request can end with do not depend on the marker.         *)
(***************************************************************************)
PCs == {"done", "stat", "probeVideo", "probeAudio", "serve", "transcode", "serveCached",
        "ffmpeg", "createTemp", "download", "proxy"}
Statuses == {0, 200, 400, 404, 500}
Bodies(r) == {NoPath, LocalPath(req[r].videoID), TmpPath(req[r].videoID, r),
              CachedPath(req[r].videoID), <<"proxy", req[r].videoID>>}

Running(r) == req[r].pc \notin {"idle", "done"}
NextToArrive(r) == req[r].pc = "idle" /\ \A q \in Reqs : q < r => req[q].pc # "idle"

CanReach(r, p) == ENABLED (RequestStep(r) /\ req'[r].pc = p)
CanAnswer(r, st) == ENABLED (RequestStep(r) /\ req'[r].status = st)
CanServe(r, b) == ENABLED (RequestStep(r) /\ req'[r].body = b)

C18_MarkerDoesNotInterfere ==
    [][/\ \A r \in Reqs : (Running(r) \/ NextToArrive(r)) => ENABLED RequestStep(r)
       /\ (currentVideo' # currentVideo /\ req' = req) =>
             \A r \in Reqs :
                 /\ \A p \in PCs : CanReach(r, p) <=> CanReach(r, p)'
                 /\ \A st \in Statuses : CanAnswer(r, st) <=> CanAnswer(r, st)'
                 /\ \A b \in Bodies(r) : CanServe(r, b) <=> CanServe(r, b)']_vars

\* a request was served its video although the marker named another video
\* when it was answered
C18_Witness ==
    \E r \in Reqs :
        /\ Done(r) /\ req[r].status = 200
        /\ req[r].inputPath # NoPath
        /\ currentVideo \notin {"", req[r].videoID}

(***************************************************************************)
(* C19: an error inside a sweep (the walk fails, d.Info() fails, os.Remove *)
(* fails) changes nothing a request works with, and leaves every request   *)
(* able to take its next step and exactly as able to fail in it as before; *)
(* a request that ends with an error changes nothing of the Service and    *)
(* leaves the run loop and the sweep the same next steps; and sweeps are   *)
(* begun as the ticks are taken, whatever requests have failed.            *)
(***************************************************************************)
\* the sweep begins and its walk fails or a d.Info() fails, or an os.Remove
\* fails
SweepErrorStep ==
    \/ sweeps' = sweeps + 1 /\ (outcome' = "scanerror" \/ statErrs' # {})
    \/ removeErrs' # removeErrs /\ removeErrs' # {}

RequestFails(r) == req[r].status = 0 /\ req'[r].status \in {400, 404, 500}

\* the next step of request r can answer with an error
CanFail(r) == ENABLED (RequestStep(r) /\ req'[r].status \in {400, 404, 500})

C19_ErrorsStayOnTheirSide ==
    [][/\ SweepErrorStep =>
             /\ UNCHANGED streamVars
             /\ \A r \in Reqs : (Running(r) \/ NextToArrive(r)) =>
                   /\ ENABLED RequestStep(r) <=> (ENABLED RequestStep(r))'
                   /\ CanFail(r) <=> CanFail(r)'
       /\ (\E r \in Reqs : RequestFails(r)) =>
             /\ UNCHANGED serviceVars
             /\ ENABLED Start <=> (ENABLED Start)'
             /\ ENABLED RunNewTicker <=> (ENABLED RunNewTicker)'
             /\ ENABLED TickerFire <=> (ENABLED TickerFire)'
             /\ ENABLED RunReceive <=> (ENABLED RunReceive)'
             /\ ENABLED RunLoop <=> (ENABLED RunLoop)'
             /\ ENABLED Cleanup <=> (ENABLED Cleanup)'
       /\ (runPc # "new" /\ \E r \in Reqs : req[r].status \in {400, 404, 500}) =>
             sweeps + (IF pc = "call" THEN 1 ELSE 0) = 1 + received]_vars

\* a request has failed in ffmpeg, and a sweep begun by a tick has met a
\* failing os.Remove
C19_Witness ==
    /\ removeErrs # {}
    /\ sweeps >= 2
    /\ \E r \in Reqs : Done(r) /\ req[r].status = 500 /\ req[r].ffmpeg = "failed"

(***************************************************************************)
(* C20: within one request and within one sweep nothing that failed is     *)
(* tried again more than once.  DownloadFileWithPath is called once and    *)
(* makes at most two requests for the file; each of the two ffprobe runs   *)
(* and ffmpeg are started once and their failure is final; a sweep calls   *)
(* os.Remove once for a file and goes on to the next file when it fails.   *)
(***************************************************************************)
FilePaths == {files[i].path : i \in 1..Len(files)}
Attempted == {files[i].path : i \in 1..(idx - 1)}

C20_NoRepeatedRetry ==
    [][/\ \A r \in Reqs :
             /\ req[r].fetchTries <= 2
             /\ req[r].fetchTries > 0 => req[r].fetch = "failed"
             /\ req[r].fetch = "failed" => (req[r].pc = "done" /\ req'[r] = req[r])
             /\ req[r].probes <= 2
             /\ req[r].pc = "probeVideo" => req[r].probes = 0
             /\ req[r].pc = "probeAudio" => req[r].probes = 1
             /\ req[r].probeErr => req'[r].probes = req[r].probes
             /\ req[r].pc = "transcode" => req[r].ffmpeg = "none"
             /\ req[r].ffmpeg = "failed" => (req[r].pc = "done" /\ req'[r] = req[r])
       /\ pc = "loop" =>
             /\ Cardinality(FilePaths) = Len(files)
             /\ removeErrs \subseteq Attempted
             /\ Cardinality(Attempted) = deletedCount + Cardinality(removeErrs)
       /\ RemoveError => (files[idx].path \notin Attempted /\ idx' = idx + 1)]_vars

\* a fetch has failed at its second request for the file, and two os.Remove
\* have failed in one sweep
C20_Witness ==
    /\ Cardinality(removeErrs) = 2
    /\ \E r \in Reqs :
          /\ req[r].fetch = "failed"
          /\ req[r].fetchTries = 2

(***************************************************************************)
(* C21: a sweep whose scan finds no more than MaxStorageGB of bytes and no *)
(* more than MaxFiles files stops there and deletes nothing: no step of    *)
(* such a sweep changes the tree.                                          *)
(***************************************************************************)
ScanWithinCeilings ==
    /\ pc \in {"loop", "done"}
    /\ files # <<>>
    /\ Len(files) <= MaxFiles
    /\ SumSizes(files) <= MaxStorageGB * 1024

C21_NoDeletionWithinCeilings ==
    [][ScanWithinCeilings' => (tree' = tree /\ Gone' = {} /\ deletedCount' = 0)]_vars

\* a sweep has returned from a tree that holds exactly MaxFiles files
C21_Witness ==
    /\ pc = "done"
    /\ ScanWithinCeilings
    /\ Len(files) = MaxFiles
    /\ Cardinality(Present(tree)) = MaxFiles

(***************************************************************************)
(* C22: an os.Remove that fails does not end the sweep.  The step changes  *)
(* neither the tree nor the running totals and moves to the next file of   *)
(* the list, which is sorted oldest first; the delete loop is left only    *)
(* when its ceilings are met or the list is exhausted.  This holds for the *)
(* loop of Service.cleanup and for the loop of CleanupManager.cleanup.     *)
(***************************************************************************)
SortedOldestFirst(fs) == \A i, j \in 1..Len(fs) : i < j => fs[i].modTime <= fs[j].modTime

C22_RemoveFailureIsSkipped ==
    [][/\ (removeErrs' # removeErrs /\ removeErrs' # {}) =>
             /\ tree' = tree
             /\ files' = files
             /\ <<totalSize', deletedCount', deletedSize'>> = <<totalSize, deletedCount, deletedSize>>
             /\ idx' = idx + 1
             /\ pc' = "loop"
       /\ pc = "loop" => SortedOldestFirst(files)
       /\ (pc = "loop" /\ pc' # "loop") =>
             \/ idx > Len(files)
             \/ (totalSize <= maxBytes /\ Len(files) - deletedCount <= maxFiles)
       /\ (cmRemoveErrs' # cmRemoveErrs /\ cmRemoveErrs' # {}) =>
             /\ cache' = cache
             /\ cmFiles' = cmFiles
             /\ <<cmTotal', cmDeleted', cmReclaimed'>> = <<cmTotal, cmDeleted, cmReclaimed>>
             /\ cmIdx' = cmIdx + 1
             /\ cmPc' = "loop"
       /\ cmPc = "loop" => SortedOldestFirst(cmFiles)
       /\ (cmPc = "loop" /\ cmPc' # "loop") =>
             \/ cmIdx > Len(cmFiles)
             \/ cmTotal <= cmMaxSize]_vars

\* a Service sweep in which the os.Remove of the oldest file failed has
\* deleted a newer file and met the ceilings
C22_Witness ==
    /\ pc = "done" /\ outcome = "cleaned"
    /\ Len(files) >= 2
    /\ files[1].path \in removeErrs
    /\ deletedCount >= 1
    /\ totalSize <= maxBytes /\ Len(files) - deletedCount <= maxFiles

(***************************************************************************)
(* C23 as stated: no error met during the scan of an existing storage path *)
(* ends the sweep; the entries that could not be read are skipped, the     *)
(* ceilings are evaluated on the other files and the sweep deletes among   *)
(* them.  Violated: an error that WalkDir hands to the callback is         *)
(* returned by it (lines 152-154), the walk stops, scanFiles returns the   *)
(* error and cleanup returns without looking at any file (lines 79-83).    *)
(***************************************************************************)
ScannedPaths == {files[i].path : i \in 1..Len(files)}

\* the files of the tree other than those whose d.Info() failed are the ones
\* scanned, the trigger is evaluated on them, and the files that were
\* skipped are not deleted
StatFailuresSkipped ==
    /\ (pc \in {"loop", "done"} /\ outcome # "nostorage" /\ outcome # "scanerror") =>
          /\ statErrs \cap ScannedPaths = {}
          /\ statErrs \subseteq Present(tree)
          /\ Present(tree) \subseteq (ScannedPaths \cup statErrs)
          /\ (pc = "done" /\ files # <<>>) =>
                (outcome = "within" <=> WithinBudget(FileSet))
    /\ (SweepCompleted /\ removeErrs = {}) =>
          \/ WithinBudget(Left)
          \/ \E f \in Left : f.size > maxBytes

CachedEvicted ==
    /\ cached \in {"complete", "failed"}
    /\ \A r \in Reqs : req[r].pc \notin {"ffmpeg", "serveCached"}
    /\ cached' = "none"
    /\ UNCHANGED <<configVars, localExists, tmpFiles, currentVideo, req>>
    /\ OnlyStream

InitEvict == InitStream

NextEvict ==
    \/ \E r \in Reqs : (\A q \in Reqs : q < r => req[q].pc = "done") /\ RequestStep(r)
    \/ SweeperRemove
    \/ CachedEvicted

SpecEvict == InitEvict /\ [][NextEvict]_vars

(***************************************************************************)
(* C24: no step of a request removes the transcoded rendition; a call of   *)
(* transcodeAndServe that finds it missing answers nothing at that point   *)
(* and starts ffmpeg, an ffmpeg run that succeeds leaves the rendition at  *)
(* transcoded-<id>.mp4 again, and the request is then answered 200 with    *)
(* that file.                                                              *)
(***************************************************************************)
C24_RegeneratedAfterEviction ==
    [][/\ (req' # req /\ cached # "none") => cached' # "none"
       /\ \A r \in Reqs :
            /\ (req[r].pc = "transcode" /\ req'[r].pc # "transcode" /\ cached = "none") =>
                  /\ req'[r].pc = "ffmpeg"
                  /\ req'[r].ffmpeg = "started"
                  /\ req'[r].status = 0
            /\ (req[r].pc = "ffmpeg" /\ req'[r].ffmpeg = "ok") =>
                  (cached' # "none" /\ req'[r].pc = "serveCached")
            /\ (req'[r].pc = "done" /\ req'[r].ffmpeg = "ok") =>
                  /\ req'[r].status = 200
                  /\ req'[r].body = CachedPath(req'[r].videoID)]_vars

\* two calls one after the other each ran ffmpeg and were served the cached
\* rendition: it was removed after the first call
C24_Witness ==
    \A r \in {1, 2} :
        /\ req[r].pc = "done"
        /\ req[r].videoID = "stored"
        /\ ~req[r].cachedAtCall
        /\ req[r].ffmpeg = "ok"
        /\ req[r].status = 200
        /\ req[r].body = CachedPath("stored")

(***************************************************************************)
(* Where the files are: main hands cfg.DownloadDir to the Server and the   *)
(* fixed path of the telegram-bot-api storage to the one Service it        *)
(* starts; no CleanupManager is constructed anywhere.                      *)
(***************************************************************************)
\* src/unnamed/part_000 line 48: cleanup.NewService("/var/lib/telegram-bot-api")
StoragePath == <<"/", "var", "lib", "telegram-bot-api">>

\* pkg/config/config.go lines 61-64: DOWNLOAD_DIR, or "downloads" under the
\* working directory
DownloadDir == <<"downloads">>

\* server.go line 1341: filepath.Join(s.downloadDir, "transcoded-<id>.mp4")
ArtifactFile(v) == DownloadDir \o <<CachedPath(v)>>

\* cleanup.go lines 151 and 171: WalkDir(s.storagePath) names the files it
\* finds by their path under s.storagePath
ScannedNames == {StoragePath \o <<files[i].path>> : i \in 1..Len(files)}

(***************************************************************************)
(* C25 as stated: a sweep whose scan runs while a transcoded rendition is  *)
(* on disk scans that rendition, so that it is counted against the         *)
(* ceilings and can be deleted.  Violated: the Service that main starts    *)
(* walks /var/lib/telegram-bot-api, the renditions are written under       *)
(* cfg.DownloadDir, and no sweeper of cfg.DownloadDir is ever started.     *)
(***************************************************************************)
C25_ArtifactsAreSwept ==
    [][(/\ pc = "call"
        /\ pc' \in {"loop", "done"}
        /\ outcome' \notin {"nostorage", "scanerror"}
        /\ cached # "none") => ArtifactFile("stored") \in ScannedNames']_vars

\* a sweep brought the storage path under the ceilings while the rendition
\* a request had made stayed on disk, unscanned
C25_ArtifactOutsideSweptTree ==
    /\ SweepCompleted
    /\ outcome = "cleaned"
    /\ Gone # {}
    /\ req[1].pc = "done"
    /\ req[1].ffmpeg = "ok"
    /\ cached = "complete"
    /\ ArtifactFile("stored") \notin ScannedNames

(***************************************************************************)
(* parser.ParseVideoInfo (pkg/parser): strings are sequences of            *)
(* characters, the regular expressions are matched the way Go's regexp     *)
(* does (leftmost match, greedy repetitions).  ShowName, which comes from  *)
(* the torrent name and an optional remote call, is not modelled: season   *)
(* and episode depend on filePath alone.                                   *)
(***************************************************************************)
UpperCase == <<"A", "B", "C", "D", "E", "F", "G", "H", "I", "J", "K", "L", "M",
               "N", "O", "P", "Q", "R", "S", "T", "U", "V", "W", "X", "Y", "Z">>
LowerCase == <<"a", "b", "c", "d", "e", "f", "g", "h", "i", "j", "k", "l", "m",
               "n", "o", "p", "q", "r", "s", "t", "u", "v", "w", "x", "y", "z">>
DigitChars == <<"0", "1", "2", "3", "4", "5", "6", "7", "8", "9">>

\* strings.ToLower
ToLowerChar(c) ==
    IF \E i \in 1..26 : UpperCase[i] = c
    THEN LowerCase[CHOOSE i \in 1..26 : UpperCase[i] = c]
    ELSE c
ToLower(s) == [i \in 1..Len(s) |-> ToLowerChar(s[i])]

\* the character at position i, or "" past either end of the string
At(s, i) == IF i \in 1..Len(s) THEN s[i] ELSE ""

IsDigit(c) == \E i \in 1..10 : DigitChars[i] = c
\* \w of the regular expressions
IsWordChar(c) == IsDigit(c) \/ c = "_" \/ \E i \in 1..26 : LowerCase[i] = ToLowerChar(c)
\* [\s._-]
IsSeparator(c) == c \in {" ", ".", "_", "-"}

\* strconv.Atoi of a string of digits
RECURSIVE Atoi(_)
Atoi(s) ==
    IF s = <<>> THEN 0
    ELSE 10 * Atoi(SubSeq(s, 1, Len(s) - 1))
           + (CHOOSE i \in 1..10 : DigitChars[i] = s[Len(s)]) - 1

\* strings.Contains
Contains(s, sub) ==
    \E i \in 1..(Len(s) - Len(sub) + 1) : SubSeq(s, i, i + Len(sub) - 1) = sub

\* (?i) literal at position i
LiteralAt(s, i, lit) ==
    /\ i >= 1
    /\ i + Len(lit) - 1 <= Len(s)
    /\ ToLower(SubSeq(s, i, i + Len(lit) - 1)) = lit

\* the number of digits, zeros, separators or blanks from position i on
\* (of digits and zeros at most max)
RECURSIVE DigitsAt(_, _, _)
DigitsAt(s, i, max) ==
    IF max = 0 \/ ~IsDigit(At(s, i)) THEN 0 ELSE 1 + DigitsAt(s, i + 1, max - 1)

RECURSIVE ZerosAt(_, _, _)
ZerosAt(s, i, max) ==
    IF max = 0 \/ At(s, i) # "0" THEN 0 ELSE 1 + ZerosAt(s, i + 1, max - 1)

RECURSIVE BlanksAt(_, _)
BlanksAt(s, i) == IF At(s, i) = " " THEN 1 + BlanksAt(s, i + 1) ELSE 0

RECURSIVE SeparatorsAt(_, _)
SeparatorsAt(s, i) == IF IsSeparator(At(s, i)) THEN 1 + SeparatorsAt(s, i + 1) ELSE 0

MinOf(S) == CHOOSE i \in S : \A j \in S : i <= j
MaxOf(S) == CHOOSE i \in S : \A j \in S : i >= j

\* filepath.Base and filepath.Dir of a path that does not end in a slash
LastSlash(p) == IF \E i \in 1..Len(p) : p[i] = "/"
                THEN MaxOf({i \in 1..Len(p) : p[i] = "/"}) ELSE 0
Base(p) == IF p = <<>> THEN <<".">> ELSE SubSeq(p, LastSlash(p) + 1, Len(p))
Dir(p) ==
    IF LastSlash(p) = 0 THEN <<".">>
    ELSE IF LastSlash(p) = 1 THEN <<"/">>
    ELSE SubSeq(p, 1, LastSlash(p) - 1)

\* the literals of the expressions
SeasonWord == <<"s", "e", "a", "s", "o", "n">>
EpisodeWord == <<"e", "p", "i", "s", "o", "d", "e">>
ExtraWords == {<<"e", "x", "t", "r", "a">>, <<"s", "p", "e", "c", "i", "a", "l">>, <<"b", "o", "n", "u", "s">>}

\* a submatch list: <<>> when the expression does not match, else the
\* numbers its groups captured
NoMatch == <<>>

\* (?i)[sS](\d{1,2})[eE](\d{1,3}), with n digits in the first group
SxxExxAt(s, i, n) ==
    /\ ToLowerChar(At(s, i)) = "s"
    /\ DigitsAt(s, i + 1, n) = n
    /\ ToLowerChar(At(s, i + n + 1)) = "e"
    /\ IsDigit(At(s, i + n + 2))
sXXeXXPattern(s) ==
    LET starts == {i \in 1..Len(s) : \E n \in 1..2 : SxxExxAt(s, i, n)}
    IN IF starts = {} THEN NoMatch
       ELSE LET i == MinOf(starts)
                n == MaxOf({k \in 1..2 : SxxExxAt(s, i, k)})
                m == DigitsAt(s, i + n + 2, 3)
            IN <<Atoi(SubSeq(s, i + 1, i + n)), Atoi(SubSeq(s, i + n + 2, i + n + 1 + m))>>

\* (?i)(\d{1,2})x(\d{1,3}), with n digits in the first group
SxEAt(s, i, n) ==
    /\ DigitsAt(s, i, n) = n
    /\ ToLowerChar(At(s, i + n)) = "x"
    /\ IsDigit(At(s, i + n + 1))
seXepPattern(s) ==
    LET starts == {i \in 1..Len(s) : \E n \in 1..2 : SxEAt(s, i, n)}
    IN IF starts = {} THEN NoMatch
       ELSE LET i == MinOf(starts)
                n == MaxOf({k \in 1..2 : SxEAt(s, i, k)})
                m == DigitsAt(s, i + n + 1, 3)
            IN <<Atoi(SubSeq(s, i, i + n - 1)), Atoi(SubSeq(s, i + n + 1, i + n + m))>>

\* the separators [\s._-]* and the group (\d{1,2}) that follow a prefix
\* ending before position j
NumberAfter(s, j) ==
    LET d == j + SeparatorsAt(s, j)
    IN IF IsDigit(At(s, d)) THEN <<Atoi(SubSeq(s, d, d + DigitsAt(s, d, 2) - 1))>>
       ELSE NoMatch

\* (?i)season[\s._-]*(\d{1,2})
seasonPattern(s) ==
    LET starts == {i \in 1..Len(s) :
                      LiteralAt(s, i, SeasonWord) /\ NumberAfter(s, i + 6) # NoMatch}
    IN IF starts = {} THEN NoMatch ELSE NumberAfter(s, MinOf(starts) + 6)

\* (?i)(?:season|s)[\s._-]*(\d{1,2})
FolderSeasonAt(s, i) ==
    IF LiteralAt(s, i, SeasonWord) /\ NumberAfter(s, i + 6) # NoMatch
    THEN NumberAfter(s, i + 6)
    ELSE IF ToLowerChar(At(s, i)) = "s" THEN NumberAfter(s, i + 1)
    ELSE NoMatch
folderSeasonPattern(s) ==
    LET starts == {i \in 1..Len(s) : FolderSeasonAt(s, i) # NoMatch}
    IN IF starts = {} THEN NoMatch ELSE FolderSeasonAt(s, MinOf(starts))

\* [\s._-]+(\d{1,3})\b after a prefix ending before position j: the digits
\* must end at a word boundary, so a run of more than three digits does not
\* match
EpisodeNumberAfter(s, j) ==
    LET k == SeparatorsAt(s, j)
        d == j + k
        m == DigitsAt(s, d, 3)
    IN IF k >= 1 /\ m >= 1 /\ ~IsWordChar(At(s, d + m))
       THEN <<Atoi(SubSeq(s, d, d + m - 1))>>
       ELSE NoMatch

\* (?i)(?:episode|ep|e)[\s._-]+(\d{1,3})\b
EpisodeAt(s, i) ==
    IF LiteralAt(s, i, EpisodeWord) /\ EpisodeNumberAfter(s, i + 7) # NoMatch
    THEN EpisodeNumberAfter(s, i + 7)
    ELSE IF LiteralAt(s, i, <<"e", "p">>) /\ EpisodeNumberAfter(s, i + 2) # NoMatch
    THEN EpisodeNumberAfter(s, i + 2)
    ELSE IF ToLowerChar(At(s, i)) = "e" THEN EpisodeNumberAfter(s, i + 1)
    ELSE NoMatch
episodePattern(s) ==
    LET starts == {i \in 1..Len(s) : EpisodeAt(s, i) # NoMatch}
    IN IF starts = {} THEN NoMatch ELSE EpisodeAt(s, MinOf(starts))

\* ^(?:season[\s._-]*|s)0*(\d{1,2})$ on a lower-cased folder name: after the
\* prefix come only digits, of which all but the last one or two are zeros
DigitsToEnd(s, j) ==
    LET n == Len(s) - j + 1
        zeros == ZerosAt(s, j, n)
    IN IF n >= 1 /\ DigitsAt(s, j, n) = n /\ n - zeros <= 2
       THEN <<Atoi(SubSeq(s, j, Len(s)))>>
       ELSE NoMatch
folderPattern(s) ==
    IF LiteralAt(s, 1, SeasonWord) /\ DigitsToEnd(s, 7 + SeparatorsAt(s, 7)) # NoMatch
    THEN DigitsToEnd(s, 7 + SeparatorsAt(s, 7))
    ELSE IF At(s, 1) = "s" THEN DigitsToEnd(s, 2)
    ELSE NoMatch

\* (?i)(?:extra|special|bonus)[s]?\s+(\d+)
ExtraAt(s, i) ==
    LET words == {w \in ExtraWords : LiteralAt(s, i, w)}
    IN IF words = {} THEN NoMatch
       ELSE LET j == i + Len(CHOOSE w \in words : TRUE)
                afterS == IF ToLowerChar(At(s, j)) = "s" /\ At(s, j + 1) = " "
                          THEN j + 1 ELSE j
                d == afterS + BlanksAt(s, afterS)
            IN IF d > afterS /\ IsDigit(At(s, d))
               THEN <<Atoi(SubSeq(s, d, d + DigitsAt(s, d, Len(s)) - 1))>>
               ELSE NoMatch
extraPattern(s) ==
    LET starts == {i \in 1..Len(s) : ExtraAt(s, i) # NoMatch}
    IN IF starts = {} THEN NoMatch ELSE ExtraAt(s, MinOf(starts))

\* lines 171-179
\* known special episode titles
knownSpecials ==
    {<<"f", "a", "c", "e", "s", " ", "o", "f", " ", "s", "c", "r", "a", "n", "t", "o", "n">>,
     <<"t", "h", "e", " ", "a", "c", "c", "o", "u", "n", "t", "a", "n", "t", "s">>,
     <<"t", "h", "e", " ", "m", "e", "n", "t", "o", "r">>,
     <<"b", "l", "a", "c", "k", "m", "a", "i", "l">>,
     <<"s", "u", "b", "t", "l", "e", " ", "s", "e", "x", "u", "a", "l", "i", "t", "y">>,
     <<"t", "h", "e", " ", "3", "r", "d", " ", "f", "l", "o", "o", "r">>,
     <<"t", "h", "e", " ", "p", "o", "d", "c", "a", "s", "t">>}

\* lines 190-195: the folders, and lines 196-203: the keywords
\* strings.Contains(lowerPath, ...)
extraFolders ==
    {<<"/", "e", "x", "t", "r", "a", "s", "/">>,
     <<"/", "s", "p", "e", "c", "i", "a", "l", "s", "/">>,
     <<"/", "d", "e", "l", "e", "t", "e", "d", " ", "s", "c", "e", "n", "e", "s", "/">>,
     <<"/", "b", "l", "o", "o", "p", "e", "r", "s", "/">>,
     <<"/", "b", "l", "o", "o", "p", "e", "r", "/">>,
     <<"/", "g", "a", "g", " ", "r", "e", "e", "l", "/">>}

\* strings.Contains(lowerFileName, ...)
extraKeywords ==
    {<<"e", "x", "t", "r", "a">>,
     <<"s", "p", "e", "c", "i", "a", "l">>,
     <<"b", "o", "n", "u", "s">>,
     <<"d", "e", "l", "e", "t", "e", "d", " ", "s", "c", "e", "n", "e">>,
     <<"b", "l", "o", "o", "p", "e", "r">>,
     <<"g", "a", "g", " ", "r", "e", "e", "l">>,
     <<"b", "e", "h", "i", "n", "d", " ", "t", "h", "e", " ", "s", "c", "e", "n", "e", "s">>,
     <<"f", "e", "a", "t", "u", "r", "e", "t", "t", "e">>}

\* lines 189-203
isExtra(fp) ==
    LET lowerPath == ToLower(fp)
        lowerFileName == ToLower(Base(fp))
    IN \/ \E special \in knownSpecials : Contains(lowerFileName, special)
       \/ \E f \in extraFolders : Contains(lowerPath, f)
       \/ \E k \in extraKeywords : Contains(lowerFileName, k)

\* the VideoInfo of lines 148-152, without ShowName
NewInfo == [SeasonNumber |-> 0, EpisodeNumber |-> 0]

\* lines 199-210: an extra is season 0, with the number after "Extra",
\* "Special" or "Bonus" as its episode
afterExtra(fp, inf) ==
    IF isExtra(fp)
    THEN [SeasonNumber |-> 0,
          EpisodeNumber |-> IF extraPattern(Base(fp)) # NoMatch
                            THEN extraPattern(Base(fp))[1] ELSE inf.EpisodeNumber]
    ELSE inf

\* lines 212-222: SxxExx in the file name
afterSxxExx(fp, inf) ==
    IF ~isExtra(fp) /\ sXXeXXPattern(Base(fp)) # NoMatch
    THEN [SeasonNumber |-> sXXeXXPattern(Base(fp))[1],
          EpisodeNumber |-> sXXeXXPattern(Base(fp))[2]]
    ELSE inf

\* lines 224-234: the season of the immediate parent folder
afterFolder(fp, inf) ==
    LET immediate == folderPattern(ToLower(Base(Dir(fp))))
    IN IF /\ ~isExtra(fp)
          /\ inf.SeasonNumber = 0
          /\ immediate # NoMatch
          /\ immediate[1] > 0
          /\ immediate[1] < 100
       THEN [inf EXCEPT !.SeasonNumber = immediate[1]]
       ELSE inf

\* lines 236-250: NxM in the file name
afterXxY(fp, inf) ==
    LET xy == seXepPattern(Base(fp))
    IN IF ~isExtra(fp) /\ inf.EpisodeNumber = 0 /\ xy # NoMatch
       THEN [SeasonNumber |-> IF inf.SeasonNumber = 0 /\ xy[1] >= 1 /\ xy[1] <= 99
                              THEN xy[1] ELSE inf.SeasonNumber,
             EpisodeNumber |-> xy[2]]
       ELSE inf

\* lines 252-259: a season anywhere in the folders
afterDirPath(fp, inf) ==
    IF ~isExtra(fp) /\ inf.SeasonNumber = 0 /\ folderSeasonPattern(Dir(fp)) # NoMatch
    THEN [inf EXCEPT !.SeasonNumber = folderSeasonPattern(Dir(fp))[1]]
    ELSE inf

\* lines 261-268: "Season N" in the file name
afterSeasonName(fp, inf) ==
    IF ~isExtra(fp) /\ inf.SeasonNumber = 0 /\ seasonPattern(Base(fp)) # NoMatch
    THEN [inf EXCEPT !.SeasonNumber = seasonPattern(Base(fp))[1]]
    ELSE inf

\* lines 270-280: "Episode N" in the file name
afterEpisode(fp, inf) ==
    IF /\ ~isExtra(fp)
       /\ inf.EpisodeNumber = 0
       /\ episodePattern(Base(fp)) # NoMatch
       /\ episodePattern(Base(fp))[1] < 1900
    THEN [inf EXCEPT !.EpisodeNumber = episodePattern(Base(fp))[1]]
    ELSE inf

\* a ParseVideoInfo that keeps the episode number of a file without a season
afterResetKeepsEpisode(fp, inf) == inf

\* lines 282-288: a file without a season that is no extra loses its
\* episode number
afterReset(fp, inf) ==
    IF inf.SeasonNumber = 0 /\ ~isExtra(fp)
    THEN [inf EXCEPT !.EpisodeNumber = 0]
    ELSE inf

(***************************************************************************)
(* SpecParser: one call of ParseVideoInfo on a file path made of an        *)
(* optional top folder, an optional season folder, an optional extras      *)
(* folder and a file name.                                                 *)
(***************************************************************************)
\* Extras, Specials, The Simpsons 1989-2024
TopFolders ==
    {<<"E", "x", "t", "r", "a", "s">>,
     <<"S", "p", "e", "c", "i", "a", "l", "s">>,
     <<"T", "h", "e", " ", "S", "i", "m", "p", "s", "o", "n", "s", " ", "1", "9", "8", "9", "-", "2", "0", "2", "4">>}

\* Season 2, S05, Season.10
SeasonFolders ==
    {<<"S", "e", "a", "s", "o", "n", " ", "2">>,
     <<"S", "0", "5">>,
     <<"S", "e", "a", "s", "o", "n", ".", "1", "0">>}

\* Deleted Scenes, Bloopers, Gag Reel
ExtrasFolders ==
    {<<"D", "e", "l", "e", "t", "e", "d", " ", "S", "c", "e", "n", "e", "s">>,
     <<"B", "l", "o", "o", "p", "e", "r", "s">>,
     <<"G", "a", "g", " ", "R", "e", "e", "l">>}

\* Show.S01E02.mkv, simpsons_10x05.mkv, Episode 01.mkv, Faces of Scranton.mkv,
\* Blooper Reel.mkv, Scene 01.mkv, movie.2020.mkv, Special 2.mkv,
\* Simpsons - 301.mkv, Community S01 Gag Reel.mkv, s20e01.mkv
FileNames ==
    {<<"S", "h", "o", "w", ".", "S", "0", "1", "E", "0", "2", ".", "m", "k", "v">>,
     <<"s", "i", "m", "p", "s", "o", "n", "s", "_", "1", "0", "x", "0", "5", ".", "m", "k", "v">>,
     <<"E", "p", "i", "s", "o", "d", "e", " ", "0", "1", ".", "m", "k", "v">>,
     <<"F", "a", "c", "e", "s", " ", "o", "f", " ", "S", "c", "r", "a", "n", "t", "o", "n", ".", "m", "k", "v">>,
     <<"B", "l", "o", "o", "p", "e", "r", " ", "R", "e", "e", "l", ".", "m", "k", "v">>,
     <<"S", "c", "e", "n", "e", " ", "0", "1", ".", "m", "k", "v">>,
     <<"m", "o", "v", "i", "e", ".", "2", "0", "2", "0", ".", "m", "k", "v">>,
     <<"S", "p", "e", "c", "i", "a", "l", " ", "2", ".", "m", "k", "v">>,
     <<"S", "i", "m", "p", "s", "o", "n", "s", " ", "-", " ", "3", "0", "1", ".", "m", "k", "v">>,
     <<"C", "o", "m", "m", "u", "n", "i", "t", "y", " ", "S", "0", "1", " ", "G", "a", "g", " ", "R", "e", "e", "l", ".", "m", "k", "v">>,
     <<"s", "2", "0", "e", "0", "1", ".", "m", "k", "v">>}

\* name, alone and under each of the folders
Under(folders, name) == {name} \cup {f \o <<"/">> \o name : f \in folders}

\* the paths ParseVideoInfo is called with
VideoPaths ==
    UNION {UNION {UNION {Under(TopFolders, p) : p \in Under(SeasonFolders, q)}
                  : q \in Under(ExtrasFolders, n)} : n \in FileNames}
\* one step of ParseVideoInfo: info becomes inf
ParseStep(from, to, inf) ==
    /\ parsePc = from
    /\ parsePc' = to
    /\ info' = inf
    /\ UNCHANGED filePath
    /\ OnlyParser

CheckExtra == ParseStep("call", "sXXeXX", afterExtra(filePath, info))
TrySxxExx == ParseStep("sXXeXX", "folder", afterSxxExx(filePath, info))
TryFolder == ParseStep("folder", "seXep", afterFolder(filePath, info))
TryXxY == ParseStep("seXep", "dirPath", afterXxY(filePath, info))
TryDirPath == ParseStep("dirPath", "season", afterDirPath(filePath, info))
TrySeasonName == ParseStep("season", "episode", afterSeasonName(filePath, info))
TryEpisode == ParseStep("episode", "reset", afterEpisode(filePath, info))
ResetEpisode == ParseStep("reset", "done", afterReset(filePath, info))

InitParser ==
    /\ filePath \in VideoPaths
    /\ info = NewInfo
    /\ parsePc = "call"
    /\ ServiceAbsent
    /\ ManagerAbsent
    /\ ServerAbsent
    /\ AuthAbsent

NextParser ==
    \/ CheckExtra
    \/ TrySxxExx
    \/ TryFolder
    \/ TryXxY
    \/ TryDirPath
    \/ TrySeasonName
    \/ TryEpisode
    \/ ResetEpisode

SpecParser == InitParser /\ [][NextParser]_vars

(***************************************************************************)
(* C26 as stated: a file whose name holds a known special title or one of  *)
(* the keywords, or that lies in a folder named extras, specials, deleted  *)
(* scenes, bloopers, blooper or gag reel, is returned with SeasonNumber 0, *)
(* whatever season pattern its name or its folders carry.  Violated: the   *)
(* folder is looked for as "/extras/" in the path, so a folder that is the *)
(* first segment of the path is not seen.                                  *)
(***************************************************************************)
\* the folders a path lies in, lower-cased
RECURSIVE FoldersOf(_)
FoldersOf(fp) ==
    IF LastSlash(fp) = 0 THEN {}
    ELSE {ToLower(Base(Dir(fp)))} \cup FoldersOf(Dir(fp))

NamedFolders == {SubSeq(f, 2, Len(f) - 1) : f \in extraFolders}

InExtrasFolder(fp) == FoldersOf(fp) \cap NamedFolders # {}

ExtraByName(fp) ==
    \/ \E special \in knownSpecials : Contains(ToLower(Base(fp)), special)
    \/ \E k \in extraKeywords : Contains(ToLower(Base(fp)), k)

C26_ExtrasHaveSeasonZero ==
    (parsePc = "done" /\ (ExtraByName(filePath) \/ InExtrasFolder(filePath))) =>
        info.SeasonNumber = 0

\* a file in a top-level Extras folder was returned with the season of the
\* SxxExx in its name
C26_TopLevelExtrasFolderMissed ==
    /\ parsePc = "done"
    /\ InExtrasFolder(filePath)
    /\ ~isExtra(filePath)
    /\ sXXeXXPattern(Base(filePath)) # NoMatch
    /\ info.SeasonNumber = sXXeXXPattern(Base(filePath))[1]
    /\ info.SeasonNumber > 0

(***************************************************************************)
(* C27: a file that is not classified as an extra is never returned with   *)
(* an episode number and no season: SeasonNumber 0 comes with              *)
(* EpisodeNumber 0, whichever pattern had found an episode number.         *)
(***************************************************************************)
C27_NoEpisodeWithoutSeason ==
    (parsePc = "done" /\ ~isExtra(filePath) /\ info.SeasonNumber = 0) =>
        info.EpisodeNumber = 0

\* a file name in which the episode pattern finds a number, with no season
\* anywhere, was returned as season 0, episode 0
C27_Witness ==
    /\ parsePc = "done"
    /\ ~isExtra(filePath)
    /\ episodePattern(Base(filePath)) # NoMatch
    /\ episodePattern(Base(filePath))[1] > 0
    /\ info = [SeasonNumber |-> 0, EpisodeNumber |-> 0]

(***************************************************************************)
(* C28: concurrent calls for the same video that is not on disk each have  *)
(* a transient file of their own, filled by a fetch of their own; a step   *)
(* of one call (its deferred os.Remove included) changes no other call's   *)
(* transient file, which stays in place with its data until that call      *)
(* returns.                                                                *)
(***************************************************************************)
\* the call is between its os.CreateTemp and its return
HoldsTemp(r) == req[r].pc = "download" \/ (Running(r) /\ req[r].fetch = "ok")

OwnTempKept ==
    \A r \in Reqs :
        /\ HoldsTemp(r) => tmpFiles[r] # "none"
        /\ (Running(r) /\ req[r].fetch = "ok") =>
              /\ tmpFiles[r] = "data"
              /\ req[r].inputPath = TmpPath(req[r].videoID, r)
        /\ \A q \in Reqs \ {r} :
              (req[r].fetch = "ok" /\ req[q].fetch = "ok") =>
                  req[r].inputPath # req[q].inputPath

C28_TransientFilesArePrivate ==
    [][/\ OwnTempKept'
       /\ \A r \in Reqs :
            tmpFiles'[r] # tmpFiles[r] =>
                /\ req'[r] # req[r]
                /\ \A q \in Reqs \ {r} : req'[q] = req[q]]_vars

\* two calls for the same video each fetched it; the first has returned and
\* removed its file, the second still has its own
C28_Witness ==
    /\ req[1].videoID = "stored"
    /\ req[2].videoID = "stored"
    /\ req[1].fetch = "ok"
    /\ req[2].fetch = "ok"
    /\ req[1].pc = "done"
    /\ tmpFiles[1] = "none"
    /\ Running(2)
    /\ tmpFiles[2] = "data"

(***************************************************************************)
(* C29: a sweeper's loop calls cleanup and waits for it to return before   *)
(* it takes the next tick, so a sweep begins only while no sweep of that   *)
(* instance is in progress; the ticker's channel holds one tick, so        *)
(* however many intervals elapse during a sweep at most one tick is        *)
(* waiting when it returns, and no more sweeps run than ticks were taken.  *)
(***************************************************************************)
Sweeping == pc \in {"call", "loop"}
CmSweeping == cmPc \in {"walk", "loop"}

C29_SweepsDoNotOverlap ==
    [][/\ (pc' = "call" /\ pc # "call") => ~Sweeping
       /\ received' # received => ~Sweeping
       /\ cmSweeps' # cmSweeps => ~CmSweeping
       /\ tickBuf' \in {0, 1}
       /\ cmTickBuf' \in {0, 1}
       /\ received' <= elapsed'
       /\ sweeps' <= received' + 1
       /\ cmSweeps' <= cmElapsed']_vars

\* a sweep begun by a tick returns after every further interval has elapsed:
\* one tick is waiting
C29_Witness ==
    /\ runPc = "tick"
    /\ pc = "done"
    /\ outcome = "cleaned"
    /\ received = 1
    /\ elapsed = MaxTicks
    /\ tickBuf = 1

(***************************************************************************)
(* C30 as stated: a started CleanupManager has begun a sweep before any    *)
(* interval has elapsed, and runs no more than one further sweep per       *)
(* interval.  Violated: Start creates the ticker and its goroutine goes    *)
(* straight to the select; the first sweep waits for the first tick.       *)
(***************************************************************************)
C30_ManagerSweepsOnStart ==
    cmPc \notin {"absent", "new"} =>
        /\ cmSweeps >= 1
        /\ cmSweeps <= cmElapsed + 1

\* a started CleanupManager waits in its select over a cache that holds
\* files, no interval has elapsed and no sweep has begun
C30_NoSweepBeforeFirstTick ==
    /\ cmPc = "select"
    /\ cmTickerOn
    /\ cmElapsed = 0
    /\ cmSweeps = 0
    /\ Present(cache) # {}

(***************************************************************************)
(* C31: over the same files, no more of them than MaxFiles, and with the   *)
(* same byte ceiling, a sweep of CleanupManager.cleanup leaves its         *)
(* directory as a sweep of Service.cleanup leaves the storage path: the    *)
(* same files are deleted, and the first sweep of the manager ends with    *)
(* the same totals.  No walk, d.Info() or os.Remove fails.                 *)
(***************************************************************************)
BothSwept == pc = "done" /\ cmPc = "select" /\ cmSweeps >= 1

C31_SweepersAgreeOnBytes ==
    BothSwept =>
        /\ cache = tree
        /\ cmSweeps = 1 =>
              /\ cmDeleted = deletedCount
              /\ cmReclaimed = deletedSize
              /\ cmTotal = totalSize

\* both have deleted the older of two files that were walked newest first,
\* and kept the other
C31_Witness ==
    /\ BothSwept
    /\ cmSweeps = 1
    /\ deletedCount = 1
    /\ cmDeleted = 1
    /\ Len(files) = 2
    /\ files[1].path = 2
    /\ Present(cache) = {1}
    /\ Present(tree) = {1}

(***************************************************************************)
(* C32: the sweeper only deletes and the handler only creates and reads.   *)
(* A step of the sweep leaves every file of the tree as it is or removes   *)
(* it, one file per step, and touches no file of the download directory.   *)
(* A step of handleAPIStream changes no file of the tree, removes neither  *)
(* the video's local file nor the rendition at cachedPath, and removes a   *)
(* transient file only when the call that created it returns.              *)
(***************************************************************************)
\* the files the handler works on
streamFiles == <<localExists, cached, tmpFiles>>

OnlyDeletes ==
    /\ storageExists' = storageExists
    /\ \A p \in Paths : tree'[p] = tree[p] \/ tree'[p] = NoFile
    /\ tree' # tree =>
          /\ Cardinality(Present(tree')) = Cardinality(Present(tree)) - 1
          /\ streamFiles' = streamFiles
    /\ (localExists /\ ~localExists') => UNCHANGED <<req, cached, tmpFiles>>

OnlyCreatesAndReads ==
    req' # req =>
        /\ tree' = tree
        /\ localExists => localExists'
        /\ cached # "none" => cached' # "none"
        /\ \A r \in Reqs :
              (tmpFiles[r] # "none" /\ tmpFiles'[r] = "none") =>
                  /\ req[r].pc \notin {"idle", "done"}
                  /\ req'[r].pc = "done"

C32_SweeperDeletesHandlerCreates == [][OnlyDeletes /\ OnlyCreatesAndReads]_vars

\* a sweep has deleted a file of the tree, and a call that fetched the video
\* into a transient file and transcoded it has returned: the rendition is in
\* place and the transient file is gone
C32_Witness ==
    /\ deletedCount >= 1
    /\ Cardinality(Present(tree)) < MaxRunFiles
    /\ req[1].pc = "done"
    /\ req[1].fetch = "ok"
    /\ req[1].ffmpeg = "ok"
    /\ cached = "complete"
    /\ tmpFiles[1] = "none"

(***************************************************************************)
(* C33: what a sweep deletes is a function of the set of scanned files and *)
(* the ceilings.  With the files ordered by modification time, and by path *)
(* among files of equal modification time, a sweep in which no os.Remove   *)
(* fails deletes the shortest initial part of that order after which the   *)
(* ceilings are met; so two sweeps over the same files with the same       *)
(* ceilings delete the same files.  This holds for Service.cleanup and for *)
(* CleanupManager.cleanup.                                                 *)
(***************************************************************************)
Before(f, g) == f.modTime < g.modTime \/ (f.modTime = g.modTime /\ f.path < g.path)

\* the k first files of the set S in that order
FirstK(S, k) == {f \in S : Cardinality({g \in S : Before(g, f)}) < k}

\* the files that go from the set S under the ceilings Within
Victims(S, Within(_)) ==
    FirstK(S, CHOOSE k \in 0..Cardinality(S) :
                  /\ Within(S \ FirstK(S, k))
                  /\ \A j \in 0..(k - 1) : ~Within(S \ FirstK(S, j)))

CmFileSet == {cmFiles[i] : i \in 1..Len(cmFiles)}
CmGone == {f \in CmFileSet : cache[f.path] = NoFile}
CmWithin(S) == SizeOf(S) <= cmMaxSize

C33_DeletionDeterminedByFileSet ==
    /\ (SweepCompleted /\ removeErrs = {}) => Gone = Victims(FileSet, WithinBudget)
    /\ (cmPc = "select" /\ cmSweeps >= 1 /\ cmRemoveErrs = {}) =>
          CmGone = Victims(CmFileSet, CmWithin)

\* a sweep has deleted one of two files of equal modification time and kept
\* the other
C33_Witness ==
    /\ SweepCompleted
    /\ removeErrs = {}
    /\ \E f \in Gone : \E g \in Left : f.modTime = g.modTime

(***************************************************************************)
(* C34: from the scan to the summary of Service.cleanup, totalSize is the  *)
(* sum of the sizes of the scanned files that have not been deleted and    *)
(* len(files) - deletedCount is their number; deletedCount and deletedSize *)
(* are the number and the bytes of the scanned files this sweep removed,   *)
(* and totalSize is never negative.                                        *)
(***************************************************************************)
\* the scanned files that are still there, and those that were removed, in
\* the order of the list
Kept == SelectSeq(files, LAMBDA f : tree[f.path] # NoFile)
Removed == SelectSeq(files, LAMBDA f : tree[f.path] = NoFile)

C34_TotalsMatchTheTree ==
    (pc = "loop" \/ SweepCompleted) =>
        /\ totalSize = SumSizes(Kept)
        /\ Len(files) - deletedCount = Len(Kept)
        /\ deletedCount = Len(Removed)
        /\ deletedSize = SumSizes(Removed)
        /\ totalSize >= 0

\* the summary of a sweep that deleted a file, failed to delete another and
\* left bytes behind
C34_Witness ==
    /\ pc = "done"
    /\ outcome = "cleaned"
    /\ deletedCount >= 1
    /\ removeErrs # {}
    /\ totalSize > 0
    /\ deletedSize > 0

(***************************************************************************)
(* C35 as stated: when the most recently modified scanned file is larger   *)
(* than maxBytes and every os.Remove succeeds, the sweep deletes every     *)
(* scanned file and leaves no file in the tree.  Violated: a file whose    *)
(* d.Info() failed is not scanned and stays in the tree.                   *)
(***************************************************************************)
\* the scanned files of the latest modification time
Newest == {f \in FileSet : \A g \in FileSet : g.modTime <= f.modTime}

LastInOrder == CHOOSE f \in FileSet : \A g \in FileSet \ {f} : Before(g, f)

CmFilePaths == {cmFiles[i].path : i \in 1..Len(cmFiles)}

\* os.Remove was called in this step
RemoveCalled == tree' # tree \/ (removeErrs' # removeErrs /\ removeErrs' # {})
CmRemoveCalled == cache' # cache \/ (cmRemoveErrs' # cmRemoveErrs /\ cmRemoveErrs' # {})

OnePass ==
    /\ pc = "loop" =>
          /\ idx <= Len(files) + 1
          /\ Cardinality(FilePaths) = Len(files)
          /\ pc' = "loop" => (files' = files /\ idx' >= idx)
    /\ RemoveCalled => (pc = "loop" /\ idx <= Len(files) /\ idx' = idx + 1)
    /\ cmPc = "loop" =>
          /\ cmIdx <= Len(cmFiles) + 1
          /\ Cardinality(CmFilePaths) = Len(cmFiles)
          /\ cmPc' = "loop" => (cmFiles' = cmFiles /\ cmIdx' >= cmIdx)
    /\ CmRemoveCalled => (cmPc = "loop" /\ cmIdx <= Len(cmFiles) /\ cmIdx' = cmIdx + 1)

C36_EverySweepTerminates ==
    /\ [][OnePass]_vars
    /\ (pc \in {"call", "loop"}) ~> (pc = "done")
    /\ (cmPc = "loop") ~> (cmPc = "select")

\* a sweep has returned with the byte ceiling still exceeded, after one
\* attempt on each of its files
C36_Witness ==
    /\ pc = "done"
    /\ outcome = "cleaned"
    /\ idx = Len(files) + 1
    /\ totalSize > maxBytes
    /\ removeErrs # {}
    /\ deletedCount >= 1

(***************************************************************************)
(* Sessions of web.Server (pkg/web/server.go): handleLogin creates a       *)
(* session, handleLogout deletes it, cleanupSessions drops the expired     *)
(* ones, and requireAuth lets a request through to the protected handler   *)
(* when isValidSession accepts its cookie.  Every access to s.sessions     *)
(* happens under s.sessionsMu, so each is one step.  generateSessionID     *)
(* encodes 32 bytes of crypto/rand: the model takes its results to be      *)
(* pairwise different and unknown to a client before createSession has     *)
(* returned them, so a cookie is an issued id, no cookie, or Forged.       *)
(***************************************************************************)
Cookies == {id \in SessionIDs : issuedAt[id] # NotIssued} \cup {NoCookie, Forged}

\* the number of ids generateSessionID has returned
Issued == Cardinality({id \in SessionIDs : issuedAt[id] # NotIssued})

\* expiry, exists := s.sessions[sessionID]
Exists(sessionID) == sessionID \in SessionIDs /\ sessions[sessionID] # NoExpiry

\* a check that ignores the expiry of the session
isValidSessionForever(sessionID) ==
    /\ sessionID # NoCookie
    /\ Exists(sessionID)

isValidSession(sessionID) ==
    /\ sessionID # NoCookie
    /\ Exists(sessionID)
    /\ now < sessions[sessionID]

\* handleLogin with the configured username and password: createSession.
\* With other credentials handleLogin redirects and changes nothing.
Login ==
    /\ Issued < MaxSessions
    /\ LET sessionID == Issued + 1
       IN /\ sessions' = [sessions EXCEPT ![sessionID] = now + SessionTTL]
          /\ issuedAt' = [issuedAt EXCEPT ![sessionID] = now]
    /\ UNCHANGED <<now, removed, auth>>
    /\ OnlyAuth

\* s.sessions after delete(s.sessions, sessionID)
deleteSession(sessionID) ==
    [id \in SessionIDs |-> IF id = sessionID THEN NoExpiry ELSE sessions[id]]

\* a logout that clears the cookie and keeps the session
LogoutKeepsSession(sessionID) ==
    /\ sessionID \in Cookies
    /\ removed' = IF sessionID \in SessionIDs THEN removed \cup {sessionID} ELSE removed
    /\ UNCHANGED <<sessions, now, issuedAt, auth>>
    /\ OnlyAuth

\* handleLogout of a request whose cookie is sessionID
Logout(sessionID) ==
    /\ sessionID \in Cookies
    /\ sessions' = IF sessionID # NoCookie THEN deleteSession(sessionID) ELSE sessions
    /\ removed' = IF sessionID \in SessionIDs THEN removed \cup {sessionID} ELSE removed
    /\ UNCHANGED <<now, issuedAt, auth>>
    /\ OnlyAuth

\* one round of cleanupSessions: every session with now.After(expiry) goes
CleanupSessions ==
    /\ sessions' = [id \in SessionIDs |->
                        IF sessions[id] # NoExpiry /\ now > sessions[id]
                        THEN NoExpiry
                        ELSE sessions[id]]
    /\ UNCHANGED <<now, issuedAt, removed, auth>>
    /\ OnlyAuth

\* time passes
ClockTick ==
    /\ now < MaxClock
    /\ now' = now + 1
    /\ UNCHANGED <<sessions, issuedAt, removed, auth>>
    /\ OnlyAuth

\* requireAuth up to its test: a request with cookie sessionID arrives
RequireAuth(sessionID) ==
    /\ auth.pc # "checked"
    /\ sessionID \in Cookies
    /\ auth' = [pc |-> IF isValidSession(sessionID) THEN "checked" ELSE "redirected",
                sid |-> sessionID]
    /\ UNCHANGED <<sessions, now, issuedAt, removed>>
    /\ OnlyAuth

\* requireAuth after its test: next(w, r)
InvokeNext ==
    /\ auth.pc = "checked"
    /\ auth' = [auth EXCEPT !.pc = "invoked"]
    /\ UNCHANGED <<sessions, now, issuedAt, removed>>
    /\ OnlyAuth

InitAuth ==
    /\ AuthAbsent
    /\ ServiceAbsent
    /\ ManagerAbsent
    /\ ServerAbsent
    /\ ParserAbsent

NextAuth ==
    \/ Login
    \/ \E sessionID \in SessionIDs \cup {NoCookie, Forged} : Logout(sessionID)
    \/ CleanupSessions
    \/ ClockTick
    \/ \E sessionID \in SessionIDs \cup {NoCookie, Forged} : RequireAuth(sessionID)
    \/ InvokeNext

SpecAuth == InitAuth /\ [][NextAuth]_vars

\* a requireAuth call makes its test in this step
AuthTested == auth.pc # "checked" /\ auth' # auth

\* the session createSession issued under the id still runs:
\* issued, not logged out, and not yet past its 24 hours
SessionRuns(id) ==
    /\ id \in SessionIDs
    /\ issuedAt[id] # NotIssued
    /\ id \notin removed
    /\ now < issuedAt[id] + SessionTTL

\* C37: requireAuth invokes the protected handler only for a request whose
\* test found its cookie to be a session id that createSession issued, that
\* no logout has removed, and whose expiry lies in the future; every other
\* request is redirected; and once a logout has removed an id, no later
\* request carrying it passes the test.
C37_OnlyRunningSessionsPass ==
    [][/\ AuthTested => (auth'.pc = "checked" <=> SessionRuns(auth'.sid))
       /\ AuthTested => (auth'.pc = "redirected" <=> ~SessionRuns(auth'.sid))
       /\ (auth'.pc = "invoked" /\ auth.pc # "invoked")
              => (auth.pc = "checked" /\ auth'.sid = auth.sid)
       /\ removed \subseteq removed'
       /\ \A id \in removed : sessions'[id] = NoExpiry
       /\ (AuthTested /\ auth'.sid \in removed) => auth'.pc = "redirected"]_vars

\* a request carrying a logged-out session that has not yet expired was
\* redirected while another session is still let through
C37_Witness ==
    /\ auth.pc = "redirected"
    /\ auth.sid \in removed
    /\ now < issuedAt[auth.sid] + SessionTTL
    /\ \E id \in SessionIDs : SessionRuns(id) /\ isValidSession(id)

(***************************************************************************)
(* CleanupManager.Stop called more than once (pkg/web/cleanup.go:47-49).   *)
(***************************************************************************)
\* C38: Stop is idempotent and order-independent: a second call, or a call
\* before Start, completes without a panic.  Stop is close(cm.done) with no
\* guard, so the second call closes a closed channel.
C38_StopNeverPanics == ~cmPanic

\* Start, Stop, and a second Stop that found cm.done closed
C38_Witness ==
    /\ cmPanic
    /\ cmDone
    /\ cmPc \in {"select", "exited"}

====
